---- MODULE Spec2Model ----
(***************************************************************************)
(* Verification model of the Arrowhead core C library (ah_base):           *)
(*   - the slab allocator            (src/alloc/slab.c)                    *)
(*   - the event loop life cycle     (src/loop.c, include/ah/loop.h)       *)
(*   - the completion dispatch       (src/iocp/loop.c)                     *)
(*   - the TCP connection write path (src/tcp-kqueue.c)                    *)
(*   - the TCP connection life cycle and read path (src/tcp-kqueue.c)      *)
(*   - the TCP connection on io_uring (src/tcp-uring.c)                    *)
(*   - the TCP listener on io_uring  (src/tcp-uring.c)                     *)
(*   - the slab allocator under its API (src/alloc/slab.c)                 *)
(*   - the bump allocator            (src/alloc/bump.c, src/alloc/align.c) *)
(* Pointers are small integers, NULL is 0.  A call that runs user          *)
(* callbacks is split at the callback boundaries; the call stack of the    *)
(* single loop thread is the variable stk.                                 *)
(***************************************************************************)
EXTENDS Integers, Sequences, FiniteSets, TLC

\* ---------------------------------------------------------------- bounds
SlotsPerBank == 2      \* slots in one slab bank
MaxBanks == 2          \* banks the page allocator hands out before failing
MaxCalls == 5          \* API calls made by the user in one behaviour
MaxWrites == 3         \* output messages the user owns
MaxLen == 2            \* bytes in one output message
MaxCompl == 4          \* write completions delivered in one behaviour
MaxData == 2           \* bytes one read event announces
MaxOuts == 2           \* output buffers the user hands to the io_uring writes
MaxPages == 2          \* pages the page allocator hands out to the reads
MaxCloses == 2         \* close operations accepted in one behaviour
MaxConns == 3          \* accepted connections that are not yet back in the slab
MaxHeld == 3           \* slots the user of a slab holds at a time
MaxRegion == 9         \* bytes in the region given to a bump allocator
MaxReq == 5            \* bytes asked of a bump allocator in one call
MaxAllocs == 3         \* successful allocations between two resets
MaxBuf == 8            \* bytes in the region a buffer cursor is made over
MaxN == 2              \* bytes asked of skip, peek, read, write and copy
MaxOps == 3            \* calls made on one buffer cursor
MaxTasks == 4          \* tasks of the user, and entries the task queue can hold
MaxTime == 2           \* the latest time and the latest baseline
MaxTaskOps == 5        \* calls made on the tasks and polls of their loop

\* ------------------------------------------------------- program constants
NULL == 0
AHI_IS_ALLOCATED == -1
RefWrap == 65536       \* size_t arithmetic of _ref_count, narrowed
PtrWrap == 32          \* uintptr_t arithmetic, narrowed to five bits
PtrAlign == 4          \* sizeof(intptr_t), narrowed
ByteWrap == 4          \* values of a uint8_t, narrowed to two bits
U16Wrap == ByteWrap ^ 2   \* values of a uint16_t
SizeWrap == 64         \* values of a size_t, narrowed
MemSize == MaxBuf + 8  \* bytes in the array that holds the region
InitialCapacity == 2   \* opts->capacity / 4u of the task queue, narrowed

AH_I_TASK_STATE_INITIAL == 0
AH_I_TASK_STATE_SCHEDULED == 1
AH_I_TASK_STATE_EXECUTED == 2
AH_I_TASK_STATE_CANCELED == 3

AHI_LOOP_STATE_INITIAL == 0
AHI_LOOP_STATE_RUNNING == 1
AHI_LOOP_STATE_STOPPING == 2
AHI_LOOP_STATE_STOPPED == 3
AHI_LOOP_STATE_TERMINATING == 4
AHI_LOOP_STATE_TERMINATED == 5

AH_I_TCP_CONN_STATE_CLOSED == 0
AH_I_TCP_CONN_STATE_OPEN == 1
AH_I_TCP_CONN_STATE_CONNECTING == 2
AH_I_TCP_CONN_STATE_CONNECTED == 3
AH_I_TCP_LISTENER_STATE_CLOSED == 0
AH_I_TCP_LISTENER_STATE_OPEN == 1
AH_I_TCP_LISTENER_STATE_LISTENING == 2
\* used by tcp-kqueue.c and tcp-uring.c; its #define is not part of the
\* sources at hand, the value continues the enumeration of _tcp.h
AH_I_TCP_CONN_STATE_READING == 4
AH_TCP_SHUTDOWN_RD == 1
AH_TCP_SHUTDOWN_WR == 2
AH_TCP_SHUTDOWN_RDWR == 3

AH_ENONE == "ENONE"
AH_ESTATE == "ESTATE"
AH_ECANCELED == "ECANCELED"
AH_ENOMEM == "ENOMEM"
AH_EINTR == "EINTR"
AH_EEOF == "EEOF"
AH_ECONNRESET == "ECONNRESET"
AH_ENOBUFS == "ENOBUFS"
AH_OK == "OK"
AH_EINVAL == "EINVAL"
AH_ERANGE == "ERANGE"

VARIABLES
    \* event loop (struct ah_loop) and the thread that runs it
    l_state,     \* ah_loop._state
    l_rel,       \* number of times the platform resources were released
    l_sterm,     \* number of times the completion slab was terminated
    slab,        \* ah_loop._evt_slab
    pend,        \* completion records handed to the kernel, not yet delivered
    stk,         \* call stack of the loop thread
    halted,      \* the process was aborted (assertion or fault)
    ub,          \* released memory or a null pointer has been accessed
    ncancel,     \* per record: callbacks delivered as cancelled
    ncalls,      \* API calls made so far
    last,        \* the last API call: operation, state before, return value
    termAcc,     \* a term() was accepted since run_until was entered
    runret       \* what the last returned run_until left behind

lvars == <<l_state, l_rel, l_sterm, slab, pend, stk, halted, ub, ncancel,
           ncalls, last, termAcc, runret>>

VARIABLES
    \* one TCP connection (struct ah_tcp_conn) and its kernel write filter
    c_state,     \* ah_tcp_conn._state
    c_shut,      \* ah_tcp_conn._shutdown_flags
    wq_head,     \* ah_tcp_conn._write_queue_head
    wq_end,      \* ah_tcp_conn._write_queue_end
    om_next,     \* per output message: ah_tcp_omsg._next
    om_iov,      \* per output message: the lengths of _iov[0 .. _iovcnt-1]
    w_reg,       \* the EVFILT_WRITE one-shot filter of the socket is armed
    w_pc,        \* "cb" while s_on_conn_write is inside on_write_done
    cb_log,      \* the on_write_done callbacks made, oldest first: the
                 \* accepted message each one was for, NULL if for none
    w_rep,       \* the last on_write_done: message handled and error passed
    acc,         \* the messages whose write() returned without error, in order
    rej,         \* the messages whose last write() returned an error
    nfresh       \* the next message the user has not used yet

wvars == <<c_state, c_shut, wq_head, wq_end, om_next, om_iov, w_reg, w_pc,
           cb_log, w_rep, acc, rej, nfresh>>

VARIABLES
    \* the connection's life cycle, common to both platforms
    c_inclose,   \* the thread is inside on_close
    n_onclose,   \* on_close callbacks made
    c_last       \* the last connection call that returned: operation and
                 \* return value

cvars == <<c_inclose, n_onclose, c_last>>

VARIABLES
    \* kqueue: connecting and reading
    k_reg,       \* the one-shot EVFILT_WRITE filter of connect() is armed
    k_pc,        \* "sync" between connect() and its inline completion,
                 \* "cb" inside on_connect, "cb_sync" when that on_connect
                 \* was made from inside ah_tcp_conn_connect
    k_rep,       \* the error passed to the last on_connect
    r_reg,       \* the EVFILT_READ filter is registered, or an event of it
                 \* is still to be dispatched
    r_pc,        \* the read callback s_on_conn_read is inside of, or "idle"
    r_kev,       \* the read event being handled: kind and bytes left
    r_rep        \* the last read callback: which one and the error passed

rvars == <<k_reg, k_pc, k_rep, r_reg, r_pc, r_kev, r_rep>>

VARIABLES
    \* io_uring: the operations of the connection that are in the ring
    u_cn,        \* a connect operation is in the ring
    u_rd,        \* receive operations in the ring: the page each one fills
    u_read_evt,  \* ah_tcp_conn._read_evt: the page of the receive it stands
                 \* for, NULL, or -1 for a record without a receive
    u_read_page, \* ah_tcp_conn._read_page, NULL when none
    u_pages,     \* per page: "fresh", "live" or "freed"
    u_pc,        \* the callback the loop thread is inside of, or "idle";
                 \* "write_zero" and "write_short" are an on_write made
                 \* without an error after none, or a part, of the bytes
                 \* of the buffer were sent
    u_wr,        \* send operations in the ring: the output buffer of each
    u_cl,        \* close operations in the ring
    u_out        \* per output buffer: "fresh", "sent" (in the ring),
                 \* "refused" (AH_ESTATE), "nomem", "done" (on_write made),
                 \* "dropped" (completed without an on_write)

uvars == <<u_cn, u_rd, u_read_evt, u_read_page, u_pages, u_pc, u_wr, u_cl,
           u_out>>

\* the write path without the connection's state and shutdown flags
wrest == <<wq_head, wq_end, om_next, om_iov, w_reg, w_pc, cb_log, w_rep, acc,
           rej, nfresh>>

\* the loop variables other than the two that record a crash
lrest == <<l_state, l_rel, l_sterm, slab, pend, stk, ncancel, ncalls, last,
           termAcc, runret>>

\* ---- a listener on io_uring and the slab of its accepted connections
VARIABLES
    ln_state,    \* ah_tcp_listener_t._state
    ln_acc,      \* accept operations in the ring
    ln_cl,       \* close operations of the listener in the ring
    ln_slab,     \* ah_tcp_listener_t._conn_slab
    ln_conn,     \* per slot: "none", or the accepted connection in it is
                 \* "open", "closing" (its close is in the ring) or
                 \* "closed" (closed without a completion)
    ln_pc,       \* "idle", or "accept" inside on_accept
    ln_last      \* the last return or report: [op, ret]

nvars == <<ln_state, ln_acc, ln_cl, ln_slab, ln_conn, ln_pc, ln_last>>

\* ---- a slab in the hands of a user (alloc/slab.c)
VARIABLES
    sl,          \* the ah_slab_t
    sl_termed,   \* "no", or how ah_slab_term was called: "null", "visitor"
    sl_held,     \* the pointers the user got from alloc and has not freed
    sl_walk,     \* ah_slab_term with a visitor: [st, bl, i], st being
                 \* "idle", "walk" (at slot i of the bank Head(bl)), "cb"
                 \* (inside the visitor), "done" or "halted" (the process
                 \* has died)
    sl_vis,      \* per slot: calls of the visitor
    sl_snap,     \* the slots that were allocated when term was called
    sl_vfreed,   \* the slots the visitor freed before they were visited
    sl_ub,       \* released memory has been written
    sl_last      \* the last call of the user and the pointer it is about

svars == <<sl, sl_termed, sl_held, sl_walk, sl_vis, sl_snap, sl_vfreed,
           sl_ub, sl_last>>

\* ---- a bump allocator in the hands of a user (alloc/bump.c)
VARIABLES
    bm_on,       \* ah_bump_init has returned AH_OK
    bm,          \* the ah_bump_t: [base, off, end]
    bm_reg,      \* the region the caller gave to ah_bump_init: [lo, sz]
    bm_log,      \* the successful allocations since init or the last
                 \* reset, in order: [p, sz]
    bm_last      \* the last call: [op, sz, p, err]

bvars == <<bm_on, bm, bm_reg, bm_log, bm_last>>

\* ---- a buffer cursor in the hands of a user (include/ah/buf.h)
VARIABLES
    bc_on,       \* a cursor has been made
    bc_native,   \* the byte order of the platform: "little" or "big"
    bc,          \* the ah_bufc_t: [r, w, e], addresses in the array
    bc_mem,      \* the bytes of the array the cursor was made over
    bc_last,     \* the last call: [op, N, be, u, ret, at]
    bc_ops       \* the calls made on the cursor

fvars == <<bc_on, bc_native, bc, bc_mem, bc_last, bc_ops>>

\* ---- the task queue of a loop and the tasks of a user (iocp/loop.c, task.c)
VARIABLES
    tq,          \* the ah_i_loop_task_queue: [capacity, length, entries],
                 \* entries[i] = [baseline, task]
    t_state,     \* per task: its _state
    t_now,       \* the _now of the loop
    tq_live,     \* per task: the baseline it was scheduled at and has not
                 \* been dequeued or cancelled from, or NoBaseline
    tq_last,     \* the last call: [op, task, baseline, ret, ran]
    tq_ub,       \* a slot that holds no entry has been read as one
    tq_ops       \* the calls made

tvars == <<tq, t_state, t_now, tq_live, tq_last, tq_ub, tq_ops>>

\* the variables of the buffer cursor and of the task queue
xvars == <<fvars, tvars>>

\* the variables of the allocators, of the listener and of the rest
avars == <<nvars, svars, bvars, xvars>>

vars == <<lvars, wvars, cvars, rvars, uvars, avars>>

\* ------------------------------------------------------------ slab.c
Slots == 1..(SlotsPerBank * MaxBanks)
Banks == 1..MaxBanks
BankOf(p) == ((p - 1) \div SlotsPerBank) + 1
FirstSlot(b) == (b - 1) * SlotsPerBank + 1
LastSlot(b) == b * SlotsPerBank

\* ah_slab_init: no bank, empty free list, one reference.
ah_slab_init ==
    [ref |-> 1, free |-> NULL, nf |-> [p \in Slots |-> NULL],
     bl |-> <<>>, pf |-> [b \in Banks |-> 0]]

\* the bank of slot p has been returned to the page allocator
Released(s, p) == s.pf[BankOf(p)] > 0

\* the loops "for (this = s->_bank_list; ...) ah_page_free(this, ...)"
FreeBanks(s) ==
    [s EXCEPT !.pf = [b \in Banks |->
        IF \E i \in 1..Len(s.bl) : s.bl[i] = b THEN @[b] + 1 ELSE @[b]]]

\* ah_slab_alloc that leaves the slot it hands out at the head of the free
\* list
ah_slab_alloc_keeps_head(s, pageOk) ==
    IF s.ref = 0 THEN [s |-> s, p |-> NULL]
    ELSE IF s.free = NULL
    THEN IF ~pageOk \/ Len(s.bl) >= MaxBanks
         THEN [s |-> s, p |-> NULL]
         ELSE LET b == Len(s.bl) + 1
                  first == FirstSlot(b)
                  threaded == [p \in Slots |->
                      IF BankOf(p) = b
                      THEN (IF p = LastSlot(b) THEN NULL ELSE p + 1)
                      ELSE s.nf[p]]
              IN [s |-> [s EXCEPT !.bl = <<b>> \o @,
                                  !.ref = @ + 1,
                                  !.free = threaded[first],
                                  !.nf = [threaded EXCEPT ![first] = AHI_IS_ALLOCATED]],
                  p |-> first]
    ELSE LET f == s.free
         IN [s |-> [s EXCEPT !.ref = @ + 1,
                             !.nf[f] = AHI_IS_ALLOCATED],
             p |-> f]

\* ah_slab_alloc; pageOk says whether ah_page_alloc succeeds when asked.
ah_slab_alloc(s, pageOk) ==
    IF s.ref = 0 THEN [s |-> s, p |-> NULL]
    ELSE IF s.free = NULL
    THEN IF ~pageOk \/ Len(s.bl) >= MaxBanks
         THEN [s |-> s, p |-> NULL]
         ELSE LET b == Len(s.bl) + 1
                  first == FirstSlot(b)
                  threaded == [p \in Slots |->
                      IF BankOf(p) = b
                      THEN (IF p = LastSlot(b) THEN NULL ELSE p + 1)
                      ELSE s.nf[p]]
              IN [s |-> [s EXCEPT !.bl = <<b>> \o @,
                                  !.ref = @ + 1,
                                  !.free = threaded[first],
                                  !.nf = [threaded EXCEPT ![first] = AHI_IS_ALLOCATED]],
                  p |-> first]
    ELSE LET f == s.free
         IN [s |-> [s EXCEPT !.ref = @ + 1,
                             !.free = s.nf[f],
                             !.nf[f] = AHI_IS_ALLOCATED],
             p |-> f]

\* ah_slab_free that leaves the banks alone when the last reference goes
ah_slab_free_leaves_banks(s, p) ==
    [s EXCEPT !.nf[p] = s.free,
              !.free = p,
              !.ref = (@ - 1 + RefWrap) % RefWrap]

\* ah_slab_free that forgets the reference of the slot
ah_slab_free_keeps_ref(s, p) ==
    [s EXCEPT !.nf[p] = s.free, !.free = p]

\* ah_slab_free past its assertion: push on the free list, drop a reference,
\* release the banks when the count reaches zero.
ah_slab_free(s, p) ==
    LET s1 == [s EXCEPT !.nf[p] = s.free,
                        !.free = p,
                        !.ref = (@ - 1 + RefWrap) % RefWrap]
    IN IF s1.ref # 0 THEN s1 ELSE FreeBanks(s1)

\* "assert(slot->_next_free == AHI_IS_ALLOCATED)" of ah_slab_free
FreeAssertHolds(s, p) == s.nf[p] = AHI_IS_ALLOCATED


\* ------------------------------------------------- loop.c, include/ah/loop.h
ah_loop_is_running == l_state = AHI_LOOP_STATE_RUNNING
ah_loop_is_term == l_state >= AHI_LOOP_STATE_TERMINATING

Top == stk[Len(stk)]
Pop(q) == SubSeq(q, 1, Len(q) - 1)
Frame(k, e, bl, i, from, err) ==
    [k |-> k, e |-> e, bl |-> bl, i |-> i, from |-> from, err |-> err]
InRun == \E j \in 1..Len(stk) : stk[j].k = "run"

\* user code has the control: outside of the library, or inside a callback
InUser ==
    /\ ~halted
    /\ ncalls < MaxCalls
    /\ (IF stk = <<>> THEN TRUE ELSE Top.k \in {"cb", "ccb"})

\* the process aborts or faults
Halt ==
    /\ halted' = TRUE
    /\ ub' = TRUE
    /\ UNCHANGED <<l_state, l_rel, l_sterm, slab, pend, stk, ncancel, ncalls,
                   last, termAcc, runret>>

\* ah_loop_init: platform facility created, slab initialised, state Initial.
LoopInit ==
    /\ l_state = AHI_LOOP_STATE_INITIAL
    /\ l_rel = 0
    /\ l_sterm = 0
    /\ slab = ah_slab_init
    /\ pend = {}
    /\ stk = <<>>
    /\ halted = FALSE
    /\ ub = FALSE
    /\ ncancel = [p \in Slots |-> 0]
    /\ ncalls = 0
    /\ last = [op |-> "init", pre |-> AHI_LOOP_STATE_INITIAL, ret |-> AH_ENONE]
    /\ termAcc = FALSE
    /\ runret = [n |-> 0, term |-> FALSE, st |-> AHI_LOOP_STATE_INITIAL, err |-> AH_ENONE]

\* a slip in the state check of ah_loop_run_until: Stopping taken for Stopped
run_until_refused_slip ==
    l_state # AHI_LOOP_STATE_INITIAL /\ l_state < AHI_LOOP_STATE_STOPPING

\* the state check of ah_loop_run_until
run_until_refused ==
    l_state # AHI_LOOP_STATE_INITIAL /\ l_state # AHI_LOOP_STATE_STOPPED

\* ah_loop_run_until up to its first poll.  An observer never starts a
\* nested reactor: from a callback the call is made only where the loop is
\* neither Initial nor Stopped.
ah_loop_run_until ==
    /\ InUser
    /\ UNCHANGED <<wvars, cvars, rvars, uvars, avars>>
    /\ (IF stk = <<>> THEN TRUE
        ELSE l_state \notin {AHI_LOOP_STATE_INITIAL, AHI_LOOP_STATE_STOPPED})
    /\ ncalls' = ncalls + 1
    /\ IF run_until_refused
       THEN /\ last' = [op |-> "run_until", pre |-> l_state, ret |-> AH_ESTATE]
            /\ UNCHANGED <<l_state, stk, termAcc>>
       ELSE /\ l_state' = AHI_LOOP_STATE_RUNNING
            /\ stk' = Append(stk, Frame("run", NULL, <<>>, 0, "", AH_ENONE))
            /\ last' = [op |-> "run_until", pre |-> l_state, ret |-> "pending"]
            /\ termAcc' = FALSE
    /\ UNCHANGED <<l_rel, l_sterm, slab, pend, halted, ub, ncancel, runret>>

\* ah_loop_stop
ah_loop_stop ==
    /\ InUser
    /\ UNCHANGED <<wvars, cvars, rvars, uvars, avars>>
    /\ ncalls' = ncalls + 1
    /\ IF l_state # AHI_LOOP_STATE_RUNNING
       THEN /\ last' = [op |-> "stop", pre |-> l_state, ret |-> AH_ESTATE]
            /\ UNCHANGED l_state
       ELSE /\ l_state' = AHI_LOOP_STATE_STOPPING
            /\ last' = [op |-> "stop", pre |-> l_state, ret |-> AH_ENONE]
    /\ UNCHANGED <<l_rel, l_sterm, slab, pend, stk, halted, ub, ncancel,
                   termAcc, runret>>

\* entry of ahi_term: ah_slab_term with the cancelling visitor, up to the
\* walk over the banks; the frame keeps the banks that the walk has left.
ahi_term_enter(from, err) ==
    /\ l_sterm' = l_sterm + 1
    /\ IF slab.ref = 0
       THEN /\ stk' = Append(stk, Frame("term", NULL, <<>>, 1, from, err))
            /\ UNCHANGED slab
       ELSE /\ slab' = [slab EXCEPT !.ref = @ - 1]
            /\ stk' = Append(stk, Frame("term", NULL, slab.bl, 1, from, err))

\* a slip in the switch of ah_loop_term: Terminating falls in with Stopping
term_inline_states_slip ==
    {AHI_LOOP_STATE_STOPPING, AHI_LOOP_STATE_STOPPED, AHI_LOOP_STATE_TERMINATING}

\* the cases of the switch of ah_loop_term that run ahi_term inline
term_inline_states == {AHI_LOOP_STATE_STOPPING, AHI_LOOP_STATE_STOPPED}

\* ah_loop_term
ah_loop_term ==
    /\ InUser
    /\ UNCHANGED <<wvars, cvars, rvars, uvars, avars>>
    /\ ncalls' = ncalls + 1
    /\ CASE l_state = AHI_LOOP_STATE_INITIAL ->
              /\ l_state' = AHI_LOOP_STATE_TERMINATED
              /\ last' = [op |-> "term", pre |-> l_state, ret |-> AH_ENONE]
              /\ termAcc' = (termAcc \/ InRun)
              /\ UNCHANGED <<l_sterm, slab, stk>>
         [] l_state = AHI_LOOP_STATE_RUNNING ->
              /\ l_state' = AHI_LOOP_STATE_TERMINATING
              /\ last' = [op |-> "term", pre |-> l_state, ret |-> AH_ENONE]
              /\ termAcc' = (termAcc \/ InRun)
              /\ UNCHANGED <<l_sterm, slab, stk>>
         [] l_state \in term_inline_states ->
              /\ ahi_term_enter("api", AH_ENONE)
              /\ last' = [op |-> "term", pre |-> l_state, ret |-> AH_ENONE]
              /\ termAcc' = (termAcc \/ InRun)
              /\ UNCHANGED l_state
         [] OTHER ->
              /\ last' = [op |-> "term", pre |-> l_state, ret |-> AH_ESTATE]
              /\ UNCHANGED <<l_state, l_sterm, slab, stk, termAcc>>
    /\ UNCHANGED <<l_rel, pend, halted, ub, ncancel, runret>>

\* the end of ah_loop_run_until: the poll returned (deadline, error or a
\* state other than Running) and the loop is stopped or terminated.
run_until_exit ==
    /\ ~halted
    /\ UNCHANGED <<wvars, cvars, rvars, uvars, avars>>
    /\ stk # <<>>
    /\ Top.k = "run"
    /\ \E err \in {AH_ENONE, AH_EINTR} :
         IF l_state = AHI_LOOP_STATE_TERMINATING
         THEN /\ ahi_term_enter("run", err)
              /\ UNCHANGED <<l_state, runret>>
         ELSE /\ l_state' = AHI_LOOP_STATE_STOPPED
              /\ stk' = Pop(stk)
              /\ runret' = [n |-> runret.n + 1, term |-> termAcc,
                            st |-> AHI_LOOP_STATE_STOPPED, err |-> err]
              /\ UNCHANGED <<l_sterm, slab>>
    /\ UNCHANGED <<l_rel, pend, halted, ub, ncancel, ncalls, last, termAcc>>

\* ahi_call_used, one slot: the visitor is called on an allocated slot.
\* Reading a slot of a released bank may fault or yield either answer.
ahi_call_used ==
    /\ ~halted
    /\ UNCHANGED <<wvars, cvars, rvars, uvars, avars>>
    /\ stk # <<>>
    /\ Top.k = "term"
    /\ Top.bl # <<>>
    /\ Top.i <= SlotsPerBank
    /\ LET b == Head(Top.bl)
           p == FirstSlot(b) + Top.i - 1
           gone == slab.pf[b] > 0
           here == [Top EXCEPT !.i = @ + 1]
       IN \E fault \in (IF gone THEN BOOLEAN ELSE {FALSE}),
             used \in (IF gone THEN BOOLEAN ELSE {slab.nf[p] = AHI_IS_ALLOCATED}) :
            IF fault THEN Halt
            ELSE /\ ub' = (ub \/ gone)
                 /\ IF used
                    THEN /\ stk' = Append(Append(Pop(stk), here),
                                          Frame("ccb", p, <<>>, 0, "", AH_ECANCELED))
                         /\ ncancel' = [ncancel EXCEPT ![p] = @ + 1]
                    ELSE /\ stk' = Append(Pop(stk), here)
                         /\ UNCHANGED ncancel
                 /\ UNCHANGED <<l_state, l_rel, l_sterm, slab, pend, halted,
                                ncalls, last, termAcc, runret>>

\* ah_slab_term, end of one bank: ah_page_free(this, s->_bank_sz).
\* Unmapping a bank a second time either fails, and ahp_page_free aborts,
\* or goes through.
slab_term_bank_end ==
    /\ ~halted
    /\ UNCHANGED <<wvars, cvars, rvars, uvars, avars>>
    /\ stk # <<>>
    /\ Top.k = "term"
    /\ Top.bl # <<>>
    /\ Top.i > SlotsPerBank
    /\ LET b == Head(Top.bl)
           gone == slab.pf[b] > 0
       IN \E fault \in (IF gone THEN BOOLEAN ELSE {FALSE}) :
            IF fault THEN Halt
            ELSE /\ ub' = (ub \/ gone)
                 /\ slab' = [slab EXCEPT !.pf[b] = @ + 1]
                 /\ stk' = Append(Pop(stk), [Top EXCEPT !.bl = Tail(@), !.i = 1])
                 /\ UNCHANGED <<l_state, l_rel, l_sterm, pend, halted,
                                ncancel, ncalls, last, termAcc, runret>>

\* the rest of ahi_term: ahi_loop_term releases the platform resources,
\* the state becomes Terminated; a terminating run_until returns.
ahi_term_finish ==
    /\ ~halted
    /\ UNCHANGED <<wvars, cvars, rvars, uvars, avars>>
    /\ stk # <<>>
    /\ Top.k = "term"
    /\ Top.bl = <<>>
    /\ l_rel' = l_rel + 1
    /\ l_state' = AHI_LOOP_STATE_TERMINATED
    /\ IF Top.from = "run"
       THEN /\ stk' = Pop(Pop(stk))
            /\ runret' = [n |-> runret.n + 1, term |-> termAcc,
                          st |-> AHI_LOOP_STATE_TERMINATED, err |-> Top.err]
       ELSE /\ stk' = Pop(stk)
            /\ UNCHANGED runret
    /\ UNCHANGED <<l_sterm, slab, pend, halted, ub, ncancel, ncalls, last, termAcc>>

\* the cancelled callback returns to the visitor
cancel_return ==
    /\ ~halted
    /\ UNCHANGED <<wvars, cvars, rvars, uvars, avars>>
    /\ stk # <<>>
    /\ Top.k = "ccb"
    /\ stk' = Pop(stk)
    /\ UNCHANGED <<l_state, l_rel, l_sterm, slab, pend, halted, ub, ncancel,
                   ncalls, last, termAcc, runret>>

\* ahi_loop_evt_alloc, called by an operation that schedules a completion
ahi_loop_evt_alloc ==
    /\ InUser
    /\ UNCHANGED <<wvars, cvars, rvars, uvars, avars>>
    /\ ncalls' = ncalls + 1
    /\ IF ah_loop_is_term
       THEN /\ last' = [op |-> "alloc", pre |-> l_state, ret |-> AH_ECANCELED]
            /\ UNCHANGED <<slab, pend, ncancel, halted, ub>>
       ELSE \E pageOk \in BOOLEAN :
              LET r == ah_slab_alloc(slab, pageOk)
                  gone == r.p # NULL /\ Released(slab, r.p)
              IN IF r.p = NULL
                 THEN /\ last' = [op |-> "alloc", pre |-> l_state, ret |-> AH_ENOMEM]
                      /\ UNCHANGED <<slab, pend, ncancel, halted, ub>>
                 ELSE /\ last' = [op |-> "alloc", pre |-> l_state, ret |-> AH_ENONE]
                      /\ slab' = r.s
                      /\ pend' = pend \cup {r.p}
                      /\ ncancel' = [ncancel EXCEPT ![r.p] = 0]
                      /\ ub' = (ub \/ gone)
                      /\ UNCHANGED halted
    /\ UNCHANGED <<l_state, l_rel, l_sterm, stk, termAcc, runret>>

\* the poll of the loop takes a completion entry and calls its callback
loop_poll_dispatch(e) ==
    /\ ~halted
    /\ UNCHANGED <<wvars, cvars, rvars, uvars, avars>>
    /\ stk # <<>>
    /\ Top.k = "run"
    /\ e \in pend
    /\ \E fault \in (IF Released(slab, e) THEN BOOLEAN ELSE {FALSE}) :
         IF fault THEN Halt
         ELSE /\ ub' = (ub \/ Released(slab, e))
              /\ pend' = pend \ {e}
              /\ stk' = Append(stk, Frame("cb", e, <<>>, 0, "", AH_ENONE))
              /\ UNCHANGED <<l_state, l_rel, l_sterm, slab, halted, ncancel,
                             ncalls, last, termAcc, runret>>

\* the callback returns and the poll returns the record to the slab
loop_poll_dealloc ==
    /\ ~halted
    /\ UNCHANGED <<wvars, cvars, rvars, uvars, avars>>
    /\ stk # <<>>
    /\ Top.k = "cb"
    /\ Top.e # NULL
    /\ LET e == Top.e
           bad == Released(slab, e) \/ ~FreeAssertHolds(slab, e)
       IN \E fault \in (IF bad THEN BOOLEAN ELSE {FALSE}) :
            IF fault THEN Halt
            ELSE /\ ub' = (ub \/ bad)
                 /\ slab' = ah_slab_free(slab, e)
                 /\ stk' = Pop(stk)
                 /\ UNCHANGED <<l_state, l_rel, l_sterm, pend, halted, ncancel,
                                ncalls, last, termAcc, runret>>

\* the poll runs a due task (ah_i_task_execute_scheduled): a callback that
\* owns no completion record
loop_poll_task ==
    /\ ~halted
    /\ UNCHANGED <<wvars, cvars, rvars, uvars, avars>>
    /\ stk # <<>>
    /\ Top.k = "run"
    /\ stk' = Append(stk, Frame("cb", NULL, <<>>, 0, "", AH_ENONE))
    /\ UNCHANGED <<l_state, l_rel, l_sterm, slab, pend, halted, ub, ncancel,
                   ncalls, last, termAcc, runret>>

\* the task callback returns to the poll
loop_task_return ==
    /\ ~halted
    /\ UNCHANGED <<wvars, cvars, rvars, uvars, avars>>
    /\ stk # <<>>
    /\ Top.k = "cb"
    /\ Top.e = NULL
    /\ stk' = Pop(stk)
    /\ UNCHANGED <<l_state, l_rel, l_sterm, slab, pend, halted, ub, ncancel,
                   ncalls, last, termAcc, runret>>

LoopNext ==
    \/ ah_loop_run_until
    \/ ah_loop_stop
    \/ ah_loop_term
    \/ run_until_exit
    \/ ahi_call_used
    \/ slab_term_bank_end
    \/ ahi_term_finish
    \/ cancel_return
    \/ ahi_loop_evt_alloc
    \/ \E e \in Slots : loop_poll_dispatch(e)
    \/ loop_poll_dealloc
    \/ loop_poll_task
    \/ loop_task_return


\* ------------------------------------------------ tcp-kqueue.c, write path
Omsgs == 1..MaxWrites

\* the buffer layouts a user gives to a message: one or two iovecs
Shapes == {<<MaxLen>>, <<1, 1>>}

RECURSIVE IovTotal(_)
IovTotal(v) == IF v = <<>> THEN 0 ELSE Head(v) + IovTotal(Tail(v))

\* the loop over the iovecs in s_on_conn_write after writev returned res:
\* the iovecs that remain to be written, <<>> when the loop runs to its end
RECURSIVE IovAdvance(_, _)
IovAdvance(v, res) ==
    IF v = <<>> THEN <<>>
    ELSE IF res >= Head(v) THEN IovAdvance(Tail(v), res - Head(v))
    ELSE <<Head(v) - res>> \o Tail(v)

HasFlag(f, b) == (f \div b) % 2 = 1
OrFlag(f, b) == IF HasFlag(f, b) THEN f ELSE f + b

InAcc(m) == \E i \in 1..Len(acc) : acc[i] = m

\* the connection as ah_tcp_conn_open leaves it, or as a listener hands it
\* to on_conn_accept: Open or Connected, no write queued
WriteInit ==
    /\ c_state \in {AH_I_TCP_CONN_STATE_OPEN, AH_I_TCP_CONN_STATE_CONNECTED}
    /\ c_shut = 0
    /\ wq_head = NULL
    /\ wq_end = NULL
    /\ om_next = [m \in Omsgs |-> NULL]
    /\ om_iov = [m \in Omsgs |-> <<>>]
    /\ w_reg = FALSE
    /\ w_pc = "idle"
    /\ cb_log = <<>>
    /\ acc = <<>>
    /\ rej = {}
    /\ w_rep = [m |-> NULL, err |-> AH_ENONE]
    /\ nfresh = 1

\* write() returned without error for m
WriteAccepted(m) ==
    /\ acc' = Append(acc, m)
    /\ rej' = rej \ {m}

\* write() returned an error for m
WriteRejected(m) ==
    /\ rej' = rej \cup {m}
    /\ UNCHANGED acc

\* ah_tcp_conn_write.  The user passes a zeroed message it has not used yet,
\* or passes again, untouched, a message whose write() returned an error.
\* s_prep_conn_write fails when no completion record can be allocated; on
\* kqueue a filter that is added again replaces the one that is armed.
ah_tcp_conn_write(m, shape) ==
    /\ ~halted
    /\ UNCHANGED lvars
    /\ \/ m = nfresh /\ nfresh' = nfresh + 1
                     /\ om_iov' = [om_iov EXCEPT ![m] = shape]
       \/ m \in rej /\ shape = <<MaxLen>> /\ UNCHANGED <<nfresh, om_iov>>
    /\ IF \/ c_state < AH_I_TCP_CONN_STATE_CONNECTED
          \/ HasFlag(c_shut, AH_TCP_SHUTDOWN_WR)
       THEN /\ WriteRejected(m)
            /\ UNCHANGED <<wq_head, wq_end, om_next, w_reg>>
       ELSE IF wq_head # NULL
       THEN /\ om_next' = [om_next EXCEPT ![wq_end] = m]
            /\ wq_end' = m
            /\ WriteAccepted(m)
            /\ UNCHANGED <<wq_head, w_reg>>
       ELSE /\ wq_head' = m
            /\ wq_end' = m
            /\ UNCHANGED om_next
            /\ \E ok \in BOOLEAN :
                 IF ok THEN w_reg' = TRUE /\ WriteAccepted(m)
                 ELSE WriteRejected(m) /\ UNCHANGED w_reg
    /\ UNCHANGED <<c_state, c_shut, w_pc, cb_log, w_rep>>
    /\ UNCHANGED <<cvars, rvars, uvars, avars>>

\* a connection call returns r to the user
Ret(op, r) == c_last' = [op |-> op, ret |-> r]

\* the user's code runs: at the top level or inside a callback, but not
\* between connect() and the completion that ah_tcp_conn_connect calls inline
UserTurn == ~halted /\ k_pc # "sync"

\* the loop dispatches an event: no callback of the connection is running
LoopTurn ==
    /\ ~halted
    /\ ~c_inclose
    /\ k_pc = "idle"
    /\ r_pc = "idle"
    /\ w_pc = "idle"
    /\ u_pc = "idle"

\* ah_tcp_conn_close: a Closed connection refuses; otherwise the state
\* becomes Closed, the descriptor is closed, which removes its filters from
\* the kernel queue, and on_close is called before close returns.  The write
\* queue is left as it is; a write or read event the loop has already taken
\* from the kernel is still dispatched.
ah_tcp_conn_close ==
    /\ UserTurn
    /\ UNCHANGED lvars
    /\ IF c_state = AH_I_TCP_CONN_STATE_CLOSED
       THEN /\ Ret("close", AH_ESTATE)
            /\ UNCHANGED <<c_state, c_inclose, n_onclose, k_reg, r_reg>>
       ELSE /\ c_state' = AH_I_TCP_CONN_STATE_CLOSED
            /\ k_reg' = FALSE
            /\ r_reg' \in (IF r_reg THEN BOOLEAN ELSE {FALSE})
            /\ n_onclose' = n_onclose + 1
            /\ c_inclose' = TRUE
            /\ UNCHANGED c_last
    /\ UNCHANGED <<c_shut, wrest, k_pc, k_rep, r_pc, r_kev, r_rep, uvars, avars>>

\* on_close returns into ah_tcp_conn_close, which returns AH_ENONE
on_close_return ==
    /\ ~halted
    /\ UNCHANGED lvars
    /\ c_inclose
    /\ c_inclose' = FALSE
    /\ Ret("close", AH_ENONE)
    /\ UNCHANGED <<c_state, c_shut, wrest, n_onclose, rvars, uvars, avars>>

\* "conn->_vtab->on_write_done(conn, err)" made while m was being handled;
\* hd is the queue head at the time of the call
ReportWriteDone(m, err, hd) ==
    /\ cb_log' = Append(cb_log, IF InAcc(m) THEN m ELSE NULL)
    /\ w_rep' = [m |-> m, err |-> err]
    /\ w_pc' = "cb"
    /\ wq_head' = hd

\* the label prep_next of s_on_conn_write with head h: s_prep_conn_write,
\* and on its failure the head is dequeued and reported
PrepNext(h, reg) ==
    \E ok \in (IF Len(cb_log) < MaxCompl THEN BOOLEAN ELSE {TRUE}) :
        IF ok
        THEN /\ w_reg' = TRUE
             /\ w_pc' = "idle"
             /\ wq_head' = h
             /\ UNCHANGED <<cb_log, w_rep>>
        ELSE /\ w_reg' = reg
             /\ ReportWriteDone(h, AH_ENOMEM, om_next[h])

\* s_on_conn_write entered with an empty queue: the debug build stops at
\* its assertion; the release build returns on a closed connection, reports
\* an error or end of file for no message, and reads through the null head
\* when the socket is writable
on_conn_write_no_head(kind) ==
    \E stop \in (IF kind = "ready" /\ c_state >= AH_I_TCP_CONN_STATE_CONNECTED
                 THEN {TRUE} ELSE BOOLEAN) :
        IF stop
        THEN /\ halted' = TRUE
             /\ ub' = TRUE
             /\ UNCHANGED <<c_shut, wq_head, om_iov, w_reg, w_pc, cb_log, w_rep>>
        ELSE /\ UNCHANGED <<halted, ub, om_iov>>
             /\ w_reg' = FALSE
             /\ IF c_state < AH_I_TCP_CONN_STATE_CONNECTED
                THEN UNCHANGED <<c_shut, wq_head, w_pc, cb_log, w_rep>>
                ELSE /\ c_shut' = (IF kind = "eof"
                                   THEN OrFlag(c_shut, AH_TCP_SHUTDOWN_WR)
                                   ELSE c_shut)
                     /\ ReportWriteDone(NULL, IF kind = "eof" THEN AH_EEOF
                                              ELSE AH_ECONNRESET, NULL)

\* s_on_conn_write up to its first on_write_done or to its return: the
\* kernel delivers the one-shot write event as an error, as an end of file,
\* or as writable, and then writev returns res (-1 for a failure)
s_on_conn_write(kind, res) ==
    /\ LoopTurn
    /\ UNCHANGED lrest
    /\ UNCHANGED <<cvars, rvars, uvars, avars>>
    /\ w_reg
    /\ Len(cb_log) < MaxCompl
    /\ IF kind = "ready" /\ wq_head # NULL
       THEN res \in -1..IovTotal(om_iov[wq_head]) ELSE res = 0
    /\ IF wq_head = NULL THEN on_conn_write_no_head(kind)
       ELSE /\ UNCHANGED <<halted, ub>>
            /\ IF c_state < AH_I_TCP_CONN_STATE_CONNECTED
               THEN /\ w_reg' = FALSE
                    /\ UNCHANGED <<c_shut, wq_head, om_iov, w_pc, cb_log, w_rep>>
               ELSE CASE kind = "error" ->
                           /\ ReportWriteDone(wq_head, AH_ECONNRESET, wq_head)
                           /\ w_reg' = FALSE
                           /\ UNCHANGED <<c_shut, om_iov>>
                      [] kind = "eof" ->
                           /\ c_shut' = OrFlag(c_shut, AH_TCP_SHUTDOWN_WR)
                           /\ ReportWriteDone(wq_head, AH_EEOF, wq_head)
                           /\ w_reg' = FALSE
                           /\ UNCHANGED om_iov
                      [] kind = "ready" /\ res < 0 ->
                           /\ ReportWriteDone(wq_head, AH_ECONNRESET, wq_head)
                           /\ w_reg' = FALSE
                           /\ UNCHANGED <<c_shut, om_iov>>
                      [] OTHER ->
                           LET rest == IovAdvance(om_iov[wq_head], res)
                           IN IF rest = <<>>
                              THEN /\ ReportWriteDone(wq_head, AH_ENONE,
                                                      om_next[wq_head])
                                   /\ w_reg' = FALSE
                                   /\ UNCHANGED <<c_shut, om_iov>>
                              ELSE /\ om_iov' = [om_iov EXCEPT ![wq_head] = rest]
                                   /\ PrepNext(wq_head, FALSE)
                                   /\ UNCHANGED c_shut
    /\ UNCHANGED <<c_state, wq_end, om_next, acc, rej, nfresh>>

\* on_write_done returns into s_on_conn_write: return when the queue is
\* empty, otherwise go on at prep_next
on_write_done_return ==
    /\ ~halted
    /\ ~c_inclose
    /\ UNCHANGED lvars
    /\ UNCHANGED <<cvars, rvars, uvars, avars>>
    /\ w_pc = "cb"
    /\ IF wq_head = NULL
       THEN /\ w_pc' = "idle"
            /\ UNCHANGED <<wq_head, w_reg, cb_log, w_rep>>
       ELSE PrepNext(wq_head, w_reg)
    /\ UNCHANGED <<c_state, c_shut, wq_end, om_next, om_iov, acc, rej, nfresh>>

WriteNext ==
    \/ \E m \in Omsgs, shape \in Shapes : ah_tcp_conn_write(m, shape)
    \/ ah_tcp_conn_close
    \/ on_close_return
    \/ \E kind \in {"error", "eof", "ready"}, res \in -1..(2 * MaxLen) :
           s_on_conn_write(kind, res)
    \/ on_write_done_return

\* ------------------------------- tcp-kqueue.c, connecting and reading
\* the observers on_read_data and on_write_done are set, so the shutdown
\* that s_on_conn_connect requests after a success has no direction to shut
ConnInit ==
    /\ c_inclose = FALSE
    /\ n_onclose = 0
    /\ c_last = [op |-> "none", ret |-> AH_ENONE]
    /\ k_reg = FALSE
    /\ k_pc = "idle"
    /\ k_rep = AH_ENONE
    /\ r_reg = FALSE
    /\ r_pc = "idle"
    /\ r_kev = [kind |-> "none", left |-> 0]
    /\ r_rep = [cb |-> "none", err |-> AH_ENONE]

\* ah_tcp_conn_connect: refused unless Open; the completion record may not
\* be had; the one-shot filter is put into the change list of the loop
\* before connect() is called, whose result decides whether the call
\* returns (in progress) or calls the completion from here (ended at once)
ah_tcp_conn_connect ==
    /\ UserTurn
    /\ UNCHANGED lvars
    /\ IF c_state # AH_I_TCP_CONN_STATE_OPEN
       THEN /\ Ret("connect", AH_ESTATE)
            /\ UNCHANGED <<c_state, k_reg, k_pc>>
       ELSE \E how \in {"nomem", "inprogress", "now"} :
              CASE how = "nomem" ->
                     /\ Ret("connect", AH_ENOMEM)
                     /\ UNCHANGED <<c_state, k_reg, k_pc>>
                [] how = "inprogress" ->
                     /\ c_state' = AH_I_TCP_CONN_STATE_CONNECTING
                     /\ k_reg' = TRUE
                     /\ Ret("connect", AH_ENONE)
                     /\ UNCHANGED k_pc
                [] OTHER ->
                     /\ c_state' = AH_I_TCP_CONN_STATE_CONNECTING
                     /\ k_reg' = TRUE
                     /\ k_pc' = "sync"
                     /\ UNCHANGED c_last
    /\ UNCHANGED <<c_shut, wrest, c_inclose, n_onclose, k_rep, r_reg, r_pc,
                   r_kev, r_rep, uvars, avars>>

\* s_on_conn_connect that forgets to go back to Open after a failure
s_on_conn_connect_no_reopen(kind) ==
    /\ UNCHANGED lvars
    /\ \/ /\ LoopTurn
          /\ k_reg
          /\ k_reg' = FALSE
          /\ k_pc' = "cb"
       \/ /\ ~halted
          /\ k_pc = "sync"
          /\ kind # "eof"
          /\ k_pc' = "cb_sync"
          /\ UNCHANGED k_reg
    /\ IF kind = "ok"
       THEN /\ c_state' = AH_I_TCP_CONN_STATE_CONNECTED
            /\ k_rep' = AH_ENONE
       ELSE /\ UNCHANGED c_state
            /\ k_rep' = (IF kind = "eof" THEN AH_EEOF ELSE AH_ECONNRESET)
    /\ UNCHANGED <<c_shut, wrest, cvars, r_reg, r_pc, r_kev, r_rep, uvars, avars>>

\* s_on_conn_connect, called by the loop for the one-shot event or by
\* ah_tcp_conn_connect itself: Open again on an error or an end of file,
\* Connected otherwise, and then on_connect
s_on_conn_connect(kind) ==
    /\ UNCHANGED lvars
    /\ \/ /\ LoopTurn
          /\ k_reg
          /\ k_reg' = FALSE
          /\ k_pc' = "cb"
       \/ /\ ~halted
          /\ k_pc = "sync"
          /\ kind # "eof"
          /\ k_pc' = "cb_sync"
          /\ UNCHANGED k_reg
    /\ IF kind = "ok"
       THEN /\ c_state' = AH_I_TCP_CONN_STATE_CONNECTED
            /\ k_rep' = AH_ENONE
       ELSE /\ c_state' = AH_I_TCP_CONN_STATE_OPEN
            /\ k_rep' = (IF kind = "eof" THEN AH_EEOF ELSE AH_ECONNRESET)
    /\ UNCHANGED <<c_shut, wrest, cvars, r_reg, r_pc, r_kev, r_rep, uvars, avars>>

\* on_connect returns; ah_tcp_conn_connect returns AH_ENONE if it made it
on_connect_return ==
    /\ ~halted
    /\ ~c_inclose
    /\ UNCHANGED lvars
    /\ k_pc \in {"cb", "cb_sync"}
    /\ k_pc' = "idle"
    /\ IF k_pc = "cb_sync" THEN Ret("connect", AH_ENONE) ELSE UNCHANGED c_last
    /\ UNCHANGED <<c_state, c_shut, wrest, c_inclose, n_onclose, k_reg, k_rep,
                   r_reg, r_pc, r_kev, r_rep, uvars, avars>>

\* ah_tcp_conn_read_start
ah_tcp_conn_read_start ==
    /\ UserTurn
    /\ UNCHANGED lvars
    /\ IF \/ c_state # AH_I_TCP_CONN_STATE_CONNECTED
          \/ HasFlag(c_shut, AH_TCP_SHUTDOWN_RD)
       THEN /\ Ret("read_start", AH_ESTATE)
            /\ UNCHANGED <<c_state, r_reg>>
       ELSE \E ok \in BOOLEAN :
              IF ok
              THEN /\ r_reg' = TRUE
                   /\ c_state' = AH_I_TCP_CONN_STATE_READING
                   /\ Ret("read_start", AH_ENONE)
              ELSE /\ Ret("read_start", AH_ENOMEM)
                   /\ UNCHANGED <<c_state, r_reg>>
    /\ UNCHANGED <<c_shut, wrest, c_inclose, n_onclose, k_reg, k_pc, k_rep,
                   r_pc, r_kev, r_rep, uvars, avars>>

\* ah_tcp_conn_read_stop that answers AH_ENONE whenever it is not Reading
ah_tcp_conn_read_stop_lenient ==
    /\ UserTurn
    /\ UNCHANGED lvars
    /\ IF c_state # AH_I_TCP_CONN_STATE_READING
       THEN /\ Ret("read_stop", AH_ENONE)
            /\ UNCHANGED <<c_state, r_reg>>
       ELSE \E ok \in BOOLEAN :
              IF ok
              THEN /\ r_reg' \in (IF r_reg THEN BOOLEAN ELSE {FALSE})
                   /\ c_state' = AH_I_TCP_CONN_STATE_CONNECTED
                   /\ Ret("read_stop", AH_ENONE)
              ELSE /\ Ret("read_stop", AH_ENOMEM)
                   /\ UNCHANGED <<c_state, r_reg>>
    /\ UNCHANGED <<c_shut, wrest, c_inclose, n_onclose, k_reg, k_pc, k_rep,
                   r_pc, r_kev, r_rep, uvars, avars>>

\* ah_tcp_conn_read_stop: the filter is deleted with the next poll, an
\* event already taken from the kernel is still dispatched
ah_tcp_conn_read_stop ==
    /\ UserTurn
    /\ UNCHANGED lvars
    /\ IF c_state # AH_I_TCP_CONN_STATE_READING
       THEN /\ Ret("read_stop", IF c_state = AH_I_TCP_CONN_STATE_CONNECTED
                                THEN AH_ESTATE ELSE AH_ENONE)
            /\ UNCHANGED <<c_state, r_reg>>
       ELSE \E ok \in BOOLEAN :
              IF ok
              THEN /\ r_reg' \in (IF r_reg THEN BOOLEAN ELSE {FALSE})
                   /\ c_state' = AH_I_TCP_CONN_STATE_CONNECTED
                   /\ Ret("read_stop", AH_ENONE)
              ELSE /\ Ret("read_stop", AH_ENOMEM)
                   /\ UNCHANGED <<c_state, r_reg>>
    /\ UNCHANGED <<c_shut, wrest, c_inclose, n_onclose, k_reg, k_pc, k_rep,
                   r_pc, r_kev, r_rep, uvars, avars>>

\* a read callback is made
ReadCb(cb, err) ==
    /\ r_pc' = cb
    /\ r_rep' = [cb |-> cb, err |-> err]

\* s_on_conn_read after its while loop: an end of file that carries a
\* socket error shuts the read direction and is reported, any other event
\* ends the handler
AfterReadLoop(kind) ==
    IF kind = "eoferr"
    THEN /\ c_shut' = OrFlag(c_shut, AH_TCP_SHUTDOWN_RD)
         /\ ReadCb("err", AH_ECONNRESET)
    ELSE /\ r_pc' = "idle"
         /\ UNCHANGED <<c_shut, r_rep>>

\* s_on_conn_read up to its first callback: the event is an error, data,
\* a plain end of file or an end of file with a socket error, and announces
\* data bytes
s_on_conn_read(kind, data) ==
    /\ LoopTurn
    /\ UNCHANGED lvars
    /\ r_reg
    /\ kind = "data" => data > 0
    /\ kind = "error" => data = 0
    /\ IF c_state # AH_I_TCP_CONN_STATE_READING
       THEN /\ r_reg' = FALSE
            /\ UNCHANGED <<c_shut, r_pc, r_kev, r_rep>>
       ELSE /\ UNCHANGED r_reg
            /\ r_kev' = [kind |-> kind, left |-> data]
            /\ IF kind = "error"
               THEN ReadCb("err", AH_ECONNRESET) /\ UNCHANGED c_shut
               ELSE IF data # 0
               THEN ReadCb("alloc", AH_ENONE) /\ UNCHANGED c_shut
               ELSE AfterReadLoop(kind)
    /\ UNCHANGED <<c_state, wrest, cvars, k_reg, k_pc, k_rep, uvars, avars>>

\* on_read_alloc returns and readv returns n, -1 for a failure
on_read_alloc_return(n) ==
    /\ ~halted
    /\ ~c_inclose
    /\ UNCHANGED lvars
    /\ r_pc = "alloc"
    /\ IF c_state # AH_I_TCP_CONN_STATE_READING
       THEN /\ n = 0
            /\ r_pc' = "idle"
            /\ UNCHANGED <<r_kev, r_rep>>
       ELSE /\ n <= r_kev.left
            /\ IF n < 0 THEN ReadCb("err", AH_ECONNRESET) /\ UNCHANGED r_kev
               ELSE IF n = 0 THEN ReadCb("err", AH_ENOBUFS) /\ UNCHANGED r_kev
               ELSE /\ ReadCb("data", AH_ENONE)
                    /\ r_kev' = [r_kev EXCEPT !.left = @ - n]
    /\ UNCHANGED <<c_state, c_shut, wrest, cvars, k_reg, k_pc, k_rep, r_reg,
                   uvars, avars>>

\* on_read_data returns: the loop goes on while bytes are left
on_read_data_return ==
    /\ ~halted
    /\ ~c_inclose
    /\ UNCHANGED lvars
    /\ r_pc = "data"
    /\ IF c_state # AH_I_TCP_CONN_STATE_READING
       THEN r_pc' = "idle" /\ UNCHANGED <<c_shut, r_rep>>
       ELSE IF r_kev.left # 0
       THEN ReadCb("alloc", AH_ENONE) /\ UNCHANGED c_shut
       ELSE AfterReadLoop(r_kev.kind)
    /\ UNCHANGED <<c_state, wrest, cvars, k_reg, k_pc, k_rep, r_reg, r_kev,
                   uvars, avars>>

\* on_read_err returns and s_on_conn_read with it
on_read_err_return ==
    /\ ~halted
    /\ ~c_inclose
    /\ UNCHANGED lvars
    /\ r_pc = "err"
    /\ r_pc' = "idle"
    /\ UNCHANGED <<c_state, c_shut, wrest, cvars, k_reg, k_pc, k_rep, r_reg,
                   r_kev, r_rep, uvars, avars>>

ConnNext ==
    \/ ah_tcp_conn_connect
    \/ \E kind \in {"ok", "error", "eof"} : s_on_conn_connect(kind)
    \/ on_connect_return
    \/ ah_tcp_conn_read_start
    \/ ah_tcp_conn_read_stop
    \/ \E kind \in {"error", "data", "eof", "eoferr"}, data \in 0..MaxData :
           s_on_conn_read(kind, data)
    \/ \E n \in -1..MaxData : on_read_alloc_return(n)
    \/ on_read_data_return
    \/ on_read_err_return
    \/ ah_tcp_conn_close
    \/ on_close_return

\* --------------------------------------------------------- tcp-uring.c
Outs == 1..MaxOuts
Pages == 1..MaxPages

\* the kqueue variables that the io_uring connection does not have, and
\* those of the allocators and of the listener
knone == <<wrest, k_reg, k_pc, k_rep, r_reg, r_pc, r_kev, r_rep, avars>>

UringInit ==
    /\ u_cn = FALSE
    /\ u_rd = {}
    /\ u_read_evt = NULL
    /\ u_read_page = NULL
    /\ u_pages = [p \in Pages |-> "fresh"]
    /\ u_pc = "idle"
    /\ u_wr = {}
    /\ u_cl = 0
    /\ u_out = [o \in Outs |-> "fresh"]

\* ah_i_tcp_conn_connect
ah_i_tcp_conn_connect ==
    /\ UserTurn
    /\ UNCHANGED lvars
    /\ IF c_state # AH_I_TCP_CONN_STATE_OPEN
       THEN Ret("connect", AH_ESTATE) /\ UNCHANGED <<c_state, u_cn>>
       ELSE \E ok \in BOOLEAN :
              IF ok
              THEN /\ u_cn' = TRUE
                   /\ c_state' = AH_I_TCP_CONN_STATE_CONNECTING
                   /\ Ret("connect", AH_ENONE)
              ELSE Ret("connect", AH_ENOMEM) /\ UNCHANGED <<c_state, u_cn>>
    /\ UNCHANGED <<c_shut, knone, c_inclose, n_onclose, u_rd, u_read_evt,
                   u_read_page, u_pages, u_pc, u_wr, u_cl, u_out>>

\* s_on_conn_connect of tcp-uring.c: the connect operation completes with
\* res = 0 (ok) or with an error, whatever the state has become meanwhile
uring_s_on_conn_connect(ok) ==
    /\ LoopTurn
    /\ UNCHANGED lvars
    /\ u_cn
    /\ u_cn' = FALSE
    /\ c_state' = (IF ok THEN AH_I_TCP_CONN_STATE_CONNECTED
                   ELSE AH_I_TCP_CONN_STATE_OPEN)
    /\ u_pc' = "connect"
    /\ UNCHANGED <<c_shut, knone, cvars, u_rd, u_read_evt, u_read_page,
                   u_pages, u_wr, u_cl, u_out>>

\* s_prep_conn_read: the completion record or the page may not be had;
\* the page allocator hands out the next page it has not handed out yet
s_prep_conn_read(evtOk, pageOk, st, pages, rd) ==
    IF ~evtOk
    THEN [err |-> AH_ENOBUFS, st |-> st, evt |-> u_read_evt,
          page |-> u_read_page, pages |-> pages, rd |-> rd]
    ELSE IF ~pageOk \/ {p \in Pages : pages[p] = "fresh"} = {}
    THEN [err |-> AH_ENOMEM, st |-> AH_I_TCP_CONN_STATE_CONNECTED, evt |-> -1,
          page |-> NULL, pages |-> pages, rd |-> rd]
    ELSE LET p == CHOOSE x \in Pages :
                     /\ pages[x] = "fresh"
                     /\ \A q \in Pages : pages[q] = "fresh" => x <= q
         IN [err |-> AH_ENONE, st |-> st, evt |-> p, page |-> p,
             pages |-> [pages EXCEPT ![p] = "live"], rd |-> rd \cup {p}]

\* the connection takes over what s_prep_conn_read left behind
PrepReadDone(r) ==
    /\ c_state' = r.st
    /\ u_read_evt' = r.evt
    /\ u_read_page' = r.page
    /\ u_pages' = r.pages
    /\ u_rd' = r.rd

\* ah_i_tcp_conn_read_start: the state is set to Reading before the read
\* is prepared
ah_i_tcp_conn_read_start ==
    /\ UserTurn
    /\ UNCHANGED lvars
    /\ IF \/ c_state # AH_I_TCP_CONN_STATE_CONNECTED
          \/ HasFlag(c_shut, AH_TCP_SHUTDOWN_RD)
       THEN /\ Ret("read_start", AH_ESTATE)
            /\ UNCHANGED <<c_state, u_read_evt, u_read_page, u_pages, u_rd>>
       ELSE \E evtOk \in BOOLEAN, pageOk \in BOOLEAN :
              LET r == s_prep_conn_read(evtOk, pageOk,
                           AH_I_TCP_CONN_STATE_READING, u_pages, u_rd)
              IN /\ PrepReadDone(r)
                 /\ Ret("read_start", r.err)
    /\ UNCHANGED <<c_shut, knone, c_inclose, n_onclose, u_cn, u_pc, u_wr,
                   u_cl, u_out>>

\* ah_i_tcp_conn_read_stop: the receive that _read_evt stands for is asked
\* to be cancelled when a submission entry can be had; it completes later
ah_i_tcp_conn_read_stop ==
    /\ UserTurn
    /\ UNCHANGED lvars
    /\ IF c_state # AH_I_TCP_CONN_STATE_READING
       THEN /\ Ret("read_stop", IF c_state = AH_I_TCP_CONN_STATE_CONNECTED
                                THEN AH_ESTATE ELSE AH_ENONE)
            /\ UNCHANGED <<c_state, u_read_evt>>
       ELSE /\ c_state' = AH_I_TCP_CONN_STATE_CONNECTED
            /\ Ret("read_stop", AH_ENONE)
            /\ IF u_read_evt # NULL
               THEN \E ok \in BOOLEAN :
                      u_read_evt' = (IF ok THEN NULL ELSE u_read_evt)
               ELSE UNCHANGED u_read_evt
    /\ UNCHANGED <<c_shut, knone, c_inclose, n_onclose, u_cn, u_rd,
                   u_read_page, u_pages, u_pc, u_wr, u_cl, u_out>>

\* s_on_conn_read of tcp-uring.c up to its on_read or to its return: the
\* receive into page p completes with res, -1 for an error
uring_s_on_conn_read(p, res) ==
    /\ LoopTurn
    /\ UNCHANGED lvars
    /\ p \in u_rd
    /\ u_rd' = u_rd \ {p}
    /\ u_read_evt' = NULL
    /\ IF c_state # AH_I_TCP_CONN_STATE_READING
       THEN UNCHANGED <<c_shut, u_pc>>
       ELSE IF res < 0
       THEN u_pc' = "read_err" /\ UNCHANGED c_shut
       ELSE IF res = 0
       THEN /\ c_shut' = OrFlag(c_shut, AH_TCP_SHUTDOWN_RD)
            /\ u_pc' = "read_err"
       ELSE u_pc' = "read" /\ UNCHANGED c_shut
    /\ UNCHANGED <<c_state, knone, cvars, u_cn, u_read_page, u_pages, u_wr,
                   u_cl, u_out>>

\* on_read returns after data: _read_page is freed, whichever page that is
\* by now, a debug build forgets it, and while the connection is Reading
\* the next receive is prepared; a failure of that is reported by on_read
uring_on_read_return ==
    /\ ~halted
    /\ ~c_inclose
    /\ u_pc = "read"
    /\ UNCHANGED lrest
    /\ LET freeing == u_read_page
           bad == freeing # NULL /\ u_pages[freeing] = "freed"
           pages1 == IF freeing = NULL THEN u_pages
                     ELSE [u_pages EXCEPT ![freeing] = "freed"]
       IN /\ ub' = (ub \/ bad)
          /\ halted' \in (IF bad THEN BOOLEAN ELSE {FALSE})
          /\ IF c_state # AH_I_TCP_CONN_STATE_READING
             THEN /\ u_pages' = pages1
                  /\ \E dbg \in BOOLEAN :
                        u_read_page' = (IF dbg THEN NULL ELSE u_read_page)
                  /\ u_pc' = "idle"
                  /\ UNCHANGED <<c_state, u_read_evt, u_rd>>
             ELSE \E evtOk \in BOOLEAN, pageOk \in BOOLEAN :
                    LET r == s_prep_conn_read(evtOk, pageOk, c_state, pages1,
                                              u_rd)
                    IN /\ c_state' = r.st
                       /\ u_read_evt' = r.evt
                       /\ u_pages' = r.pages
                       /\ u_rd' = r.rd
                       /\ IF evtOk
                          THEN u_read_page' = r.page
                          ELSE \E dbg \in BOOLEAN :
                                 u_read_page' = (IF dbg THEN NULL
                                                 ELSE u_read_page)
                       /\ u_pc' = (IF r.err = AH_ENONE THEN "idle"
                                   ELSE "read_err")
    /\ UNCHANGED <<c_shut, knone, cvars, u_cn, u_wr, u_cl, u_out>>

\* ah_i_tcp_conn_write with a guard that lets only Connected pass
ah_i_tcp_conn_write_connected_only(o) ==
    /\ UserTurn
    /\ UNCHANGED lvars
    /\ u_out[o] = "fresh"
    /\ IF \/ c_state # AH_I_TCP_CONN_STATE_CONNECTED
          \/ HasFlag(c_shut, AH_TCP_SHUTDOWN_WR)
       THEN /\ Ret("write", AH_ESTATE)
            /\ u_out' = [u_out EXCEPT ![o] = "refused"]
            /\ UNCHANGED u_wr
       ELSE \E ok \in BOOLEAN :
              IF ok
              THEN /\ u_wr' = u_wr \cup {o}
                   /\ u_out' = [u_out EXCEPT ![o] = "sent"]
                   /\ Ret("write", AH_ENONE)
              ELSE /\ u_out' = [u_out EXCEPT ![o] = "nomem"]
                   /\ Ret("write", AH_ENOMEM)
                   /\ UNCHANGED u_wr
    /\ UNCHANGED <<c_state, c_shut, knone, c_inclose, n_onclose, u_cn, u_rd,
                   u_read_evt, u_read_page, u_pages, u_pc, u_cl>>

\* ah_i_tcp_conn_write: every accepted write is put into the ring at once
ah_i_tcp_conn_write(o) ==
    /\ UserTurn
    /\ UNCHANGED lvars
    /\ u_out[o] = "fresh"
    /\ IF \/ c_state < AH_I_TCP_CONN_STATE_CONNECTED
          \/ HasFlag(c_shut, AH_TCP_SHUTDOWN_WR)
       THEN /\ Ret("write", AH_ESTATE)
            /\ u_out' = [u_out EXCEPT ![o] = "refused"]
            /\ UNCHANGED u_wr
       ELSE \E ok \in BOOLEAN :
              IF ok
              THEN /\ u_wr' = u_wr \cup {o}
                   /\ u_out' = [u_out EXCEPT ![o] = "sent"]
                   /\ Ret("write", AH_ENONE)
              ELSE /\ u_out' = [u_out EXCEPT ![o] = "nomem"]
                   /\ Ret("write", AH_ENOMEM)
                   /\ UNCHANGED u_wr
    /\ UNCHANGED <<c_state, c_shut, knone, c_inclose, n_onclose, u_cn, u_rd,
                   u_read_evt, u_read_page, u_pages, u_pc, u_cl>>

\* s_on_conn_write of tcp-uring.c: the send of o, a buffer of MaxLen bytes,
\* completes with res, -1 for an error; nothing is reported once the
\* connection is below Connected, and otherwise on_write is made with the
\* error or, for every res >= 0, with none, also when res is less than
\* MaxLen
uring_s_on_conn_write(o, res) ==
    /\ LoopTurn
    /\ UNCHANGED lvars
    /\ o \in u_wr
    /\ u_wr' = u_wr \ {o}
    /\ IF c_state < AH_I_TCP_CONN_STATE_CONNECTED
       THEN /\ u_out' = [u_out EXCEPT ![o] = "dropped"]
            /\ UNCHANGED u_pc
       ELSE /\ u_out' = [u_out EXCEPT ![o] = "done"]
            /\ u_pc' = (IF res = 0 THEN "write_zero"
                        ELSE IF res > 0 /\ res < MaxLen THEN "write_short"
                        ELSE "write")
    /\ UNCHANGED <<c_state, c_shut, knone, cvars, u_cn, u_rd, u_read_evt,
                   u_read_page, u_pages, u_cl>>

\* on_connect, on_write or an on_read that carried an error returns, and
\* the handler that made it returns to the loop
uring_callback_return ==
    /\ ~halted
    /\ ~c_inclose
    /\ UNCHANGED lvars
    /\ u_pc \in {"connect", "write", "write_zero", "write_short", "read_err",
                "close"}
    /\ u_pc' = "idle"
    /\ UNCHANGED <<c_state, c_shut, knone, cvars, u_cn, u_rd, u_read_evt,
                   u_read_page, u_pages, u_wr, u_cl, u_out>>

\* ah_i_tcp_conn_close: a Closed connection refuses, and so does a debug
\* build whose descriptor an earlier close has zeroed; the close goes into
\* the ring, or, without a completion record, is made here with on_close
ah_i_tcp_conn_close ==
    /\ UserTurn
    /\ UNCHANGED lvars
    /\ n_onclose + u_cl < MaxCloses
    /\ \E fdZero \in (IF n_onclose > 0 THEN BOOLEAN ELSE {FALSE}) :
         IF c_state = AH_I_TCP_CONN_STATE_CLOSED \/ fdZero
         THEN /\ Ret("close", AH_ESTATE)
              /\ UNCHANGED <<c_state, c_shut, c_inclose, n_onclose, u_cl>>
         ELSE /\ c_state' = AH_I_TCP_CONN_STATE_CLOSED
              /\ \E ok \in BOOLEAN :
                   IF ok
                   THEN /\ u_cl' = u_cl + 1
                        /\ Ret("close", AH_ENONE)
                        /\ UNCHANGED <<c_shut, c_inclose, n_onclose>>
                   ELSE /\ c_shut' = AH_TCP_SHUTDOWN_RDWR
                        /\ n_onclose' = n_onclose + 1
                        /\ c_inclose' = TRUE
                        /\ UNCHANGED <<u_cl, c_last>>
    /\ UNCHANGED <<knone, u_cn, u_rd, u_read_evt, u_read_page, u_pages, u_pc,
                   u_wr, u_out>>

\* s_on_conn_close: the close operation completes and on_close is made
s_on_conn_close ==
    /\ LoopTurn
    /\ UNCHANGED lvars
    /\ u_cl > 0
    /\ u_cl' = u_cl - 1
    /\ c_shut' = AH_TCP_SHUTDOWN_RDWR
    /\ n_onclose' = n_onclose + 1
    /\ u_pc' = "close"
    /\ UNCHANGED <<c_state, knone, c_inclose, c_last, u_cn, u_rd, u_read_evt,
                   u_read_page, u_pages, u_wr, u_out>>

UringNext ==
    \/ ah_i_tcp_conn_connect
    \/ \E ok \in BOOLEAN : uring_s_on_conn_connect(ok)
    \/ ah_i_tcp_conn_read_start
    \/ ah_i_tcp_conn_read_stop
    \/ \E p \in Pages, res \in -1..1 : uring_s_on_conn_read(p, res)
    \/ uring_on_read_return
    \/ \E o \in Outs : ah_i_tcp_conn_write(o)
    \/ \E o \in Outs, res \in -1..MaxLen : uring_s_on_conn_write(o, res)
    \/ uring_callback_return
    \/ ah_i_tcp_conn_close
    \/ on_close_return
    \/ s_on_conn_close

\* ------------------------------------------ tcp-uring.c, the listener
\* the listener after ah_tcp_listener_open: Open, its connection slab
\* initialised, nothing in the ring.  The slab calls of tcp-uring.c
\* (ah_i_slab_alloc, ah_i_slab_free, ah_i_slab_term) are the functions of
\* alloc/slab.c.
ListenerInit ==
    /\ ln_state = AH_I_TCP_LISTENER_STATE_OPEN
    /\ ln_acc = 0
    /\ ln_cl = 0
    /\ ln_slab = ah_slab_init
    /\ ln_conn = [p \in Slots |-> "none"]
    /\ ln_pc = "idle"
    /\ ln_last = [op |-> "none", ret |-> AH_ENONE]

LnRet(op, r) == ln_last' = [op |-> op, ret |-> r]

\* ah_slab_term without a visitor: drop the reference of the owner and
\* release the banks when that was the last one
ah_slab_term_eager(s) ==
    IF s.ref = 0 THEN s
    ELSE FreeBanks([s EXCEPT !.ref = @ - 1])

ah_slab_term(s) ==
    IF s.ref = 0 THEN s
    ELSE LET s1 == [s EXCEPT !.ref = @ - 1]
         IN IF s1.ref # 0 THEN s1 ELSE FreeBanks(s1)

\* ah_i_tcp_listener_listen: refused unless Open; listen() may fail, which
\* on_listen reports; the first accept is put into the ring
ah_i_tcp_listener_listen ==
    /\ UNCHANGED <<lvars, wvars, cvars, rvars, uvars, svars, bvars, xvars>>
    /\ IF ln_state # AH_I_TCP_LISTENER_STATE_OPEN
       THEN /\ LnRet("listen", AH_ESTATE)
            /\ UNCHANGED <<ln_state, ln_acc>>
       ELSE \E how \in {"fail", "nomem", "ok"} :
              CASE how = "fail" ->
                     /\ LnRet("on_listen", AH_ECONNRESET)
                     /\ UNCHANGED <<ln_state, ln_acc>>
                [] how = "nomem" ->
                     /\ LnRet("listen", AH_ENOMEM)
                     /\ UNCHANGED <<ln_state, ln_acc>>
                [] OTHER ->
                     /\ ln_acc' = ln_acc + 1
                     /\ ln_state' = AH_I_TCP_LISTENER_STATE_LISTENING
                     /\ LnRet("on_listen", AH_ENONE)
    /\ UNCHANGED <<ln_cl, ln_slab, ln_conn, ln_pc>>

\* s_on_listener_accept up to its on_accept: an accept completes, with a
\* failure or with a connection, which takes a slot of the slab; the peers
\* keep at most MaxConns connections at a time
s_on_listener_accept(ok, pageOk) ==
    /\ ln_pc = "idle"
    /\ ok => Cardinality({p \in Slots : ln_conn[p] # "none"}) < MaxConns
    /\ UNCHANGED <<lvars, wvars, cvars, rvars, uvars, svars, bvars, xvars>>
    /\ ln_acc > 0
    /\ ln_acc' = ln_acc - 1
    /\ ln_pc' = "accept"
    /\ IF ~ok
       THEN /\ LnRet("on_accept", AH_ECONNRESET)
            /\ UNCHANGED <<ln_slab, ln_conn>>
       ELSE LET r == ah_slab_alloc(ln_slab, pageOk)
            IN IF r.p = NULL
               THEN /\ LnRet("on_accept", AH_ENOMEM)
                    /\ UNCHANGED <<ln_slab, ln_conn>>
               ELSE /\ ln_slab' = r.s
                    /\ ln_conn' = [ln_conn EXCEPT ![r.p] = "open"]
                    /\ LnRet("on_accept", AH_ENONE)
    /\ UNCHANGED <<ln_state, ln_cl>>

\* on_accept returns, prep_another_accept: nothing for a closed listener;
\* otherwise the next accept goes into the ring, unless no submission
\* entry can be had, which on_listen reports when it is not AH_ECANCELED
prep_another_accept ==
    /\ ln_pc = "accept"
    /\ UNCHANGED <<lvars, wvars, cvars, rvars, uvars, svars, bvars, xvars>>
    /\ ln_pc' = "idle"
    /\ IF ln_state = AH_I_TCP_LISTENER_STATE_CLOSED
       THEN UNCHANGED <<ln_acc, ln_last>>
       ELSE \E err \in {AH_ENONE, AH_ENOMEM, AH_ECANCELED} :
              CASE err = AH_ENONE ->
                     ln_acc' = ln_acc + 1 /\ UNCHANGED ln_last
                [] err = AH_ENOMEM ->
                     LnRet("on_listen", AH_ENOMEM) /\ UNCHANGED ln_acc
                [] OTHER -> UNCHANGED <<ln_acc, ln_last>>
    /\ UNCHANGED <<ln_state, ln_cl, ln_slab, ln_conn>>

\* ah_i_tcp_listener_close: a Closed listener refuses; the close goes into
\* the ring, or, without a submission entry, is made here: on_close, then
\* the reference of the listener to its slab is dropped
ah_i_tcp_listener_close ==
    /\ UNCHANGED <<lvars, wvars, cvars, rvars, uvars, svars, bvars, xvars>>
    /\ IF ln_state = AH_I_TCP_LISTENER_STATE_CLOSED
       THEN /\ LnRet("close", AH_ESTATE)
            /\ UNCHANGED <<ln_state, ln_cl, ln_slab>>
       ELSE /\ ln_state' = AH_I_TCP_LISTENER_STATE_CLOSED
            /\ \E ok \in BOOLEAN :
                 IF ok
                 THEN /\ ln_cl' = ln_cl + 1
                      /\ LnRet("close", AH_ENONE)
                      /\ UNCHANGED ln_slab
                 ELSE /\ ln_slab' = ah_slab_term(ln_slab)
                      /\ LnRet("on_close", AH_ENONE)
                      /\ UNCHANGED ln_cl
    /\ UNCHANGED <<ln_acc, ln_conn, ln_pc>>

\* s_on_listener_close: the close completes, on_close is made and the
\* reference of the listener to its slab is dropped
s_on_listener_close ==
    /\ ln_pc = "idle"
    /\ UNCHANGED <<lvars, wvars, cvars, rvars, uvars, svars, bvars, xvars>>
    /\ ln_cl > 0
    /\ ln_cl' = ln_cl - 1
    /\ ln_slab' = ah_slab_term(ln_slab)
    /\ LnRet("on_close", AH_ENONE)
    /\ UNCHANGED <<ln_state, ln_acc, ln_conn, ln_pc>>

\* ah_i_tcp_conn_close on the accepted connection in slot p: the close goes
\* into the ring, or is made here with on_close, and then the slot is kept
accepted_conn_close(p) ==
    /\ UNCHANGED <<lvars, wvars, cvars, rvars, uvars, svars, bvars, xvars>>
    /\ ln_conn[p] \in {"open", "closing", "closed"}
    /\ IF ln_conn[p] # "open"
       THEN /\ LnRet("conn_close", AH_ESTATE)
            /\ UNCHANGED ln_conn
       ELSE \E ok \in BOOLEAN :
              IF ok
              THEN /\ ln_conn' = [ln_conn EXCEPT ![p] = "closing"]
                   /\ LnRet("conn_close", AH_ENONE)
              ELSE /\ ln_conn' = [ln_conn EXCEPT ![p] = "closed"]
                   /\ LnRet("conn_on_close", AH_ENONE)
    /\ UNCHANGED <<ln_state, ln_acc, ln_cl, ln_slab, ln_pc>>

\* s_on_conn_close for the accepted connection in slot p: on_close, then
\* the connection goes back into the slab that owns it
accepted_s_on_conn_close(p) ==
    /\ ln_pc = "idle"
    /\ UNCHANGED <<lvars, wvars, cvars, rvars, uvars, svars, bvars, xvars>>
    /\ ln_conn[p] = "closing"
    /\ ln_conn' = [ln_conn EXCEPT ![p] = "none"]
    /\ ln_slab' = ah_slab_free(ln_slab, p)
    /\ LnRet("conn_on_close", AH_ENONE)
    /\ UNCHANGED <<ln_state, ln_acc, ln_cl, ln_pc>>

ListenerNext ==
    \/ ah_i_tcp_listener_listen
    \/ \E ok \in BOOLEAN, pageOk \in BOOLEAN : s_on_listener_accept(ok, pageOk)
    \/ prep_another_accept
    \/ ah_i_tcp_listener_close
    \/ s_on_listener_close
    \/ \E p \in Slots : accepted_conn_close(p)
    \/ \E p \in Slots : accepted_s_on_conn_close(p)

\* --------------------------------------- slab.c in the hands of a user
\* the slab after ah_slab_init
SlabInit ==
    /\ sl = ah_slab_init
    /\ sl_termed = "no"
    /\ sl_held = {}
    /\ sl_walk = [st |-> "idle", bl |-> <<>>, i |-> 1]
    /\ sl_vis = [p \in Slots |-> 0]
    /\ sl_snap = {}
    /\ sl_vfreed = {}
    /\ sl_ub = FALSE
    /\ sl_last = [op |-> "init", p |-> NULL]

\* the slots that carry the mark AHI_IS_ALLOCATED
Allocated(s) == {p \in Slots : s.nf[p] = AHI_IS_ALLOCATED}

\* the user may call alloc and free: not inside ah_slab_term, and not
\* after an ah_slab_term with a visitor, which has released all memory
SlabUser == sl_walk.st = "idle" /\ sl_termed # "visitor"

\* the user calls ah_slab_alloc, holding fewer than MaxHeld slots
slab_alloc(pageOk) ==
    /\ SlabUser
    /\ Cardinality(sl_held) < MaxHeld
    /\ UNCHANGED <<lvars, wvars, cvars, rvars, uvars, nvars, bvars, xvars>>
    /\ LET r == ah_slab_alloc(sl, pageOk)
       IN /\ sl' = r.s
          /\ sl_held' = (IF r.p = NULL THEN sl_held ELSE sl_held \cup {r.p})
          /\ sl_last' = [op |-> "alloc", p |-> r.p]
    /\ UNCHANGED <<sl_termed, sl_walk, sl_vis, sl_snap, sl_vfreed, sl_ub>>

\* the user calls ah_slab_free with a pointer it holds
slab_free(p) ==
    /\ SlabUser
    /\ UNCHANGED <<lvars, wvars, cvars, rvars, uvars, nvars, bvars, xvars>>
    /\ p \in sl_held
    /\ sl' = ah_slab_free(sl, p)
    /\ sl_held' = sl_held \ {p}
    /\ sl_last' = [op |-> "free", p |-> p]
    /\ UNCHANGED <<sl_termed, sl_walk, sl_vis, sl_snap, sl_vfreed, sl_ub>>

\* the user calls ah_slab_term(s, NULL), once
slab_term_null ==
    /\ SlabUser
    /\ UNCHANGED <<lvars, wvars, cvars, rvars, uvars, nvars, bvars, xvars>>
    /\ sl_termed = "no"
    /\ sl' = ah_slab_term(sl)
    /\ sl_termed' = "null"
    /\ sl_last' = [op |-> "term", p |-> NULL]
    /\ UNCHANGED <<sl_held, sl_walk, sl_vis, sl_snap, sl_vfreed, sl_ub>>

\* the user calls ah_slab_term(s, cb), once: the reference of the owner is
\* dropped and the walk over the banks begins
slab_term_visitor ==
    /\ SlabUser
    /\ UNCHANGED <<lvars, wvars, cvars, rvars, uvars, nvars, bvars, xvars>>
    /\ sl_termed = "no"
    /\ sl' = [sl EXCEPT !.ref = @ - 1]
    /\ sl_termed' = "visitor"
    /\ sl_walk' = [st |-> "walk", bl |-> sl.bl, i |-> 1]
    /\ sl_snap' = Allocated(sl)
    /\ sl_last' = [op |-> "term", p |-> NULL]
    /\ UNCHANGED <<sl_held, sl_vis, sl_vfreed, sl_ub>>

\* the slot the walk is at
WalkSlot == FirstSlot(Head(sl_walk.bl)) + sl_walk.i - 1

\* one step of the loops of ah_slab_term and ahi_call_used: the visitor is
\* called for a slot that carries the mark, a slot without it is passed,
\* a bank whose slots are done is given to ah_page_free
slab_walk_step ==
    /\ sl_walk.st = "walk"
    /\ UNCHANGED <<lvars, wvars, cvars, rvars, uvars, nvars, bvars, xvars>>
    /\ IF sl_walk.bl = <<>>
       THEN /\ sl_walk' = [sl_walk EXCEPT !.st = "done"]
            /\ UNCHANGED <<sl, sl_vis>>
       ELSE IF sl_walk.i > SlotsPerBank
       THEN /\ sl' = [sl EXCEPT !.pf[Head(sl_walk.bl)] = @ + 1]
            /\ sl_walk' = [sl_walk EXCEPT !.bl = Tail(@), !.i = 1]
            /\ UNCHANGED sl_vis
       ELSE IF sl.nf[WalkSlot] = AHI_IS_ALLOCATED
       THEN /\ sl_walk' = [sl_walk EXCEPT !.st = "cb"]
            /\ sl_vis' = [sl_vis EXCEPT ![WalkSlot] = @ + 1]
            /\ UNCHANGED sl
       ELSE /\ sl_walk' = [sl_walk EXCEPT !.i = @ + 1]
            /\ UNCHANGED <<sl, sl_vis>>
    /\ UNCHANGED <<sl_termed, sl_held, sl_snap, sl_vfreed, sl_ub, sl_last>>

\* the visitor calls ah_slab_free for another slot than the one it was
\* called for.  A slot of a bank that ah_slab_term has already given to
\* ah_page_free lies in unmapped memory: the write to its _next_free kills
\* the process, or hits whatever has been mapped there since
slab_visitor_free(q) ==
    /\ sl_walk.st = "cb"
    /\ UNCHANGED <<lvars, wvars, cvars, rvars, uvars, nvars, bvars, xvars>>
    /\ q \in sl_held
    /\ q # WalkSlot
    /\ sl_last' = [op |-> "free", p |-> q]
    /\ \E dies \in (IF Released(sl, q) THEN BOOLEAN ELSE {FALSE}) :
         IF dies
         THEN /\ sl_walk' = [sl_walk EXCEPT !.st = "halted"]
              /\ sl_ub' = TRUE
              /\ UNCHANGED <<sl, sl_held, sl_vfreed>>
         ELSE /\ sl' = ah_slab_free(sl, q)
              /\ sl_held' = sl_held \ {q}
              /\ sl_vfreed' = (IF sl_vis[q] = 0 THEN sl_vfreed \cup {q}
                               ELSE sl_vfreed)
              /\ sl_ub' = (sl_ub \/ Released(sl, q))
              /\ UNCHANGED sl_walk
    /\ UNCHANGED <<sl_termed, sl_vis, sl_snap>>

\* the visitor returns into ahi_call_used
slab_visitor_return ==
    /\ sl_walk.st = "cb"
    /\ UNCHANGED <<lvars, wvars, cvars, rvars, uvars, nvars, bvars, xvars>>
    /\ sl_walk' = [sl_walk EXCEPT !.st = "walk", !.i = @ + 1]
    /\ UNCHANGED <<sl, sl_termed, sl_held, sl_vis, sl_snap, sl_vfreed, sl_ub,
                   sl_last>>

SlabNext ==
    \/ \E pageOk \in BOOLEAN : slab_alloc(pageOk)
    \/ \E p \in Slots : slab_free(p)
    \/ slab_term_null
    \/ slab_term_visitor
    \/ slab_walk_step
    \/ \E q \in Slots : slab_visitor_free(q)
    \/ slab_visitor_return

\* ------------------------------------------------ bump.c, align.c
\* ah_ckd_add on uintptr_t: the sum does not fit
ah_ckd_add(a, b) == a + b >= PtrWrap

\* ahi_align_ptr with the alignment sizeof(intptr_t): ptr is rounded up
ahi_align_ptr(ptr) ==
    IF ah_ckd_add(ptr, PtrAlign - 1)
    THEN [err |-> AH_ERANGE, ptr |-> (ptr + PtrAlign - 1) % PtrWrap]
    ELSE [err |-> AH_OK,
          ptr |-> (ptr + PtrAlign - 1) - ((ptr + PtrAlign - 1) % PtrAlign)]

\* ah_bump_init: base is rounded up, end is sz bytes after the rounded base
ah_bump_init(base, sz) ==
    IF base = NULL /\ sz # 0 THEN [err |-> AH_EINVAL, b |-> bm]
    ELSE IF ahi_align_ptr(base).err # AH_OK THEN [err |-> AH_ERANGE, b |-> bm]
    ELSE LET ab == ahi_align_ptr(base).ptr
         IN IF ah_ckd_add(ab, sz) THEN [err |-> AH_ERANGE, b |-> bm]
            ELSE [err |-> AH_OK,
                  b |-> [base |-> ab, off |-> ab, end |-> ab + sz]]

\* ah_bump_alloc that does not round the new offset up
ah_bump_alloc_unaligned(b, sz) ==
    IF ah_ckd_add(b.off, sz) THEN [ok |-> FALSE, p |-> NULL, b |-> b]
    ELSE LET off == b.off + sz
         IN IF off > b.end THEN [ok |-> FALSE, p |-> NULL, b |-> b]
            ELSE [ok |-> TRUE, p |-> b.off, b |-> [b EXCEPT !.off = off]]

\* ah_bump_alloc: the old offset is returned when the new one, rounded up,
\* does not pass end
ah_bump_alloc(b, sz) ==
    IF ah_ckd_add(b.off, sz) THEN [ok |-> FALSE, p |-> NULL, b |-> b]
    ELSE IF ahi_align_ptr(b.off + sz).err # AH_OK
    THEN [ok |-> FALSE, p |-> NULL, b |-> b]
    ELSE LET off == ahi_align_ptr(b.off + sz).ptr
         IN IF off > b.end THEN [ok |-> FALSE, p |-> NULL, b |-> b]
            ELSE [ok |-> TRUE, p |-> b.off, b |-> [b EXCEPT !.off = off]]

\* ah_bump_get_used_size
ah_bump_get_used_size(b) == (b.off - b.base + PtrWrap) % PtrWrap

\* no allocator yet
BumpInit ==
    /\ bm_on = FALSE
    /\ bm = [base |-> NULL, off |-> NULL, end |-> NULL]
    /\ bm_reg = [lo |-> NULL, sz |-> 0]
    /\ bm_log = <<>>
    /\ bm_last = [op |-> "none", sz |-> 0, p |-> NULL, err |-> AH_OK]

\* the user calls ah_bump_init with a region of sz bytes at base, or with a
\* size that does not fit into the address space
bump_init(base, sz) ==
    /\ ~bm_on
    /\ UNCHANGED <<lvars, wvars, cvars, rvars, uvars, nvars, svars, xvars>>
    /\ LET r == ah_bump_init(base, sz)
       IN /\ bm' = r.b
          /\ bm_on' = (r.err = AH_OK)
          /\ bm_reg' = (IF r.err = AH_OK THEN [lo |-> base, sz |-> sz]
                        ELSE bm_reg)
          /\ bm_last' = [op |-> "init", sz |-> sz, p |-> base, err |-> r.err]
    /\ UNCHANGED bm_log

\* the user calls ah_bump_alloc; a pointer that is not null is a success
bump_alloc(sz) ==
    /\ bm_on
    /\ UNCHANGED <<lvars, wvars, cvars, rvars, uvars, nvars, svars, xvars>>
    /\ Len(bm_log) < MaxAllocs
    /\ LET r == ah_bump_alloc(bm, sz)
       IN /\ bm' = r.b
          /\ bm_log' = (IF r.p # NULL
                        THEN Append(bm_log, [p |-> r.p, sz |-> sz])
                        ELSE bm_log)
          /\ bm_last' = [op |-> "alloc", sz |-> sz, p |-> r.p,
                         err |-> IF r.p # NULL THEN AH_OK ELSE AH_ENOMEM]
    /\ UNCHANGED <<bm_on, bm_reg>>

\* the user calls ah_bump_reset
bump_reset ==
    /\ bm_on
    /\ UNCHANGED <<lvars, wvars, cvars, rvars, uvars, nvars, svars, xvars>>
    /\ bm' = [bm EXCEPT !.off = bm.base]
    /\ bm_log' = <<>>
    /\ bm_last' = [op |-> "reset", sz |-> 0, p |-> NULL, err |-> AH_OK]
    /\ UNCHANGED <<bm_on, bm_reg>>

BumpNext ==
    \/ \E base \in 0..(PtrWrap - 1), sz \in (0..MaxRegion) \cup {PtrWrap - 1} :
         bump_init(base, sz)
    \/ \E sz \in (0..MaxReq) \cup {PtrWrap - 1} : bump_alloc(sz)
    \/ bump_reset

\* ------------------------------------------ buf.h, bit.h: buffer cursors
\* byte i, counted from the least significant one, of the integer u
ByteOf(u, i) == (u \div (ByteWrap ^ i)) % ByteWrap

RECURSIVE SumBytes(_, _)
\* the sum of f[0] .. f[n - 1]
SumBytes(f, n) == IF n = 0 THEN 0 ELSE f[n - 1] + SumBytes(f, n - 1)

\* __builtin_bswap16/32/64: the N bytes of u in reverse order
ahi_byteswap(N, u) ==
    SumBytes([i \in 0..(N - 1) |-> ByteOf(u, i) * (ByteWrap ^ (N - 1 - i))], N)

\* the parameter is a uintN_t and the value returned a uint16_t in each of
\* ah_to_be_u16/u32/u64, ah_to_le_*, ah_from_be_* and ah_from_le_*
ah_to_be(N, u, native) ==
    LET v == u % (ByteWrap ^ N)
    IN (IF native = "big" THEN v ELSE ahi_byteswap(N, v)) % U16Wrap

ah_to_le(N, u, native) ==
    LET v == u % (ByteWrap ^ N)
    IN (IF native = "little" THEN v ELSE ahi_byteswap(N, v)) % U16Wrap

ah_from_be(N, u, native) ==
    LET v == u % (ByteWrap ^ N)
    IN (IF native = "big" THEN v ELSE ahi_byteswap(N, v)) % U16Wrap

ah_from_le(N, u, native) ==
    LET v == u % (ByteWrap ^ N)
    IN (IF native = "little" THEN v ELSE ahi_byteswap(N, v)) % U16Wrap

\* *((uintN_t*) a) = u: the N bytes of u in the platform's byte order
Store(m, a, N, u, native) ==
    [x \in DOMAIN m |->
        IF a <= x /\ x < a + N
        THEN ByteOf(u, IF native = "little" THEN x - a ELSE N - 1 - (x - a))
        ELSE m[x]]

\* *((uintN_t*) a)
Load(m, a, N, native) ==
    SumBytes([i \in 0..(N - 1) |->
                 m[a + i] * (ByteWrap ^ (IF native = "little" THEN i
                                         ELSE N - 1 - i))], N)

\* memmove(a, src, n) from a user buffer that holds SrcByte(0), SrcByte(1), ..
SrcByte(i) == (i % (ByteWrap - 1)) + 1

\* no cursor yet; the array the cursors are made over holds zeroes
BufcInit ==
    /\ bc_on = FALSE
    /\ bc_native = "little"
    /\ bc = [r |-> NULL, w |-> NULL, e |-> NULL]
    /\ bc_mem = [x \in 0..(MemSize - 1) |-> 0]
    /\ bc_last = [op |-> "none", N |-> 0, be |-> FALSE, u |-> 0,
                  ret |-> FALSE, at |-> 0]
    /\ bc_ops = 0

BufcRest == <<lvars, wvars, cvars, rvars, uvars, nvars, svars, bvars, tvars>>

BufcLast(op, N, be, u, ret, at) ==
    [op |-> op, N |-> N, be |-> be, u |-> u, ret |-> ret, at |-> at]

\* the user makes one more call on the cursor: it was made and no call has
\* written past the array
BufcLive ==
    /\ bc_on /\ bc_last.op # "overrun"
    /\ bc_ops < MaxOps /\ bc_ops' = bc_ops + 1

\* ah_bufc_from_writable(base, sz) or ah_bufc_from_readable(base, sz) over
\* the front of the array, which starts at address 0 of the model, on a
\* platform of the given byte order
ah_bufc_from(kind, sz, native) ==
    /\ ~bc_on
    /\ UNCHANGED BufcRest
    /\ bc_on' = TRUE
    /\ bc_ops' = 0
    /\ bc_native' = native
    /\ bc' = (IF sz = 0 THEN [r |-> NULL, w |-> NULL, e |-> NULL]
              ELSE IF kind = "readable" THEN [r |-> 0, w |-> sz, e |-> sz]
              ELSE [r |-> 0, w |-> 0, e |-> sz])
    /\ bc_mem' = (IF kind = "readable"
                  THEN [x \in 0..(MemSize - 1) |-> SrcByte(x)]
                  ELSE bc_mem)
    /\ bc_last' = BufcLast(kind, sz, FALSE, 0, TRUE, 0)

\* ah_bufc_skip(c, n)
ah_bufc_skip(n) ==
    /\ BufcLive
    /\ UNCHANGED <<BufcRest, bc_on, bc_native, bc_mem>>
    /\ IF (bc.w - bc.r) % SizeWrap < n
       THEN /\ bc' = bc
            /\ bc_last' = BufcLast("skip", n, FALSE, 0, FALSE, bc.r)
       ELSE /\ bc' = [bc EXCEPT !.r = bc.r + n]
            /\ bc_last' = BufcLast("skip", n, FALSE, 0, TRUE, bc.r)

\* ah_bufc_peek(c, dst, n) and ah_bufc_read(c, dst, n) into a buffer of the
\* user, or into NULL
ah_bufc_read(n, dstNull, advance) ==
    /\ BufcLive
    /\ UNCHANGED <<BufcRest, bc_on, bc_native, bc_mem>>
    /\ LET op == IF advance THEN "read" ELSE "peek"
       IN IF (bc.w - bc.r) % SizeWrap < n \/ dstNull
          THEN /\ bc' = bc
               /\ bc_last' = BufcLast(op, n, FALSE, 0, FALSE, bc.r)
          ELSE /\ bc' = (IF advance THEN [bc EXCEPT !.r = bc.r + n] ELSE bc)
               /\ bc_last' = BufcLast(op, n, FALSE, 0, TRUE, bc.r)

\* ah_bufc_write(c, src, n) from a buffer of the user, or from NULL
ah_bufc_write(n, srcNull) ==
    /\ BufcLive
    /\ UNCHANGED <<BufcRest, bc_on, bc_native>>
    /\ IF (srcNull /\ n > 0) \/ (bc.e - bc.w) % SizeWrap < n
       THEN /\ UNCHANGED <<bc, bc_mem>>
            /\ bc_last' = BufcLast("write", n, FALSE, 0, FALSE, bc.w)
       ELSE IF bc.w + n > MemSize
       THEN /\ UNCHANGED <<bc, bc_mem>>
            /\ bc_last' = BufcLast("overrun", n, FALSE, 0, FALSE, bc.w)
       ELSE /\ bc_mem' = [x \in DOMAIN bc_mem |->
                            IF bc.w <= x /\ x < bc.w + n
                            THEN SrcByte(x - bc.w) ELSE bc_mem[x]]
            /\ bc' = [bc EXCEPT !.w = bc.w + n]
            /\ bc_last' = BufcLast("write", n, FALSE, 0, TRUE, bc.w)

\* ah_bufc_copy(src, dst, n) with the one cursor as source and destination
ah_bufc_copy(n) ==
    /\ BufcLive
    /\ UNCHANGED <<BufcRest, bc_on, bc_native>>
    /\ IF (bc.w - bc.r) % SizeWrap < n \/ (bc.e - bc.w) % SizeWrap < n
       THEN /\ UNCHANGED <<bc, bc_mem>>
            /\ bc_last' = BufcLast("copy", n, FALSE, 0, FALSE, bc.w)
       ELSE IF bc.w + n > MemSize
       THEN /\ UNCHANGED <<bc, bc_mem>>
            /\ bc_last' = BufcLast("overrun", n, FALSE, 0, FALSE, bc.w)
       ELSE /\ bc_mem' = [x \in DOMAIN bc_mem |->
                            IF bc.w <= x /\ x < bc.w + n
                            THEN bc_mem[bc.r + (x - bc.w)] ELSE bc_mem[x]]
            /\ bc' = [bc EXCEPT !.r = bc.r + n, !.w = bc.w + n]
            /\ bc_last' = BufcLast("copy", n, FALSE, 0, TRUE, bc.w)

\* ah_bufc_write_u16_be/le, _u32_be/le, _u64_be/le (c, u): N is sizeof(uintN_t)
ah_bufc_write_uN(N, be, u) ==
    /\ BufcLive
    /\ UNCHANGED <<BufcRest, bc_on, bc_native>>
    /\ IF (bc.w - bc.e) % SizeWrap < N
       THEN /\ UNCHANGED <<bc, bc_mem>>
            /\ bc_last' = BufcLast("write_u", N, be, u, FALSE, bc.w)
       ELSE IF bc.w + N > MemSize
       THEN /\ UNCHANGED <<bc, bc_mem>>
            /\ bc_last' = BufcLast("overrun", N, be, u, FALSE, bc.w)
       ELSE /\ bc_mem' = Store(bc_mem, bc.w, N,
                               IF be THEN ah_to_be(N, u, bc_native)
                               ELSE ah_to_le(N, u, bc_native), bc_native)
            /\ bc' = [bc EXCEPT !.w = bc.w + N]
            /\ bc_last' = BufcLast("write_u", N, be, u, TRUE, bc.w)

\* ah_bufc_read_u16_be/le, _u32_be/le, _u64_be/le (c); ah_bufc_read_u64_le
\* converts with ah_from_le_u32
ah_bufc_read_uN(N, be) ==
    /\ BufcLive
    /\ UNCHANGED <<BufcRest, bc_on, bc_native, bc_mem>>
    /\ IF (bc.w - bc.r) % SizeWrap < N
       THEN /\ bc' = bc
            /\ bc_last' = BufcLast("read_u", N, be, 0, FALSE, bc.r)
       ELSE LET u == Load(bc_mem, bc.r, N, bc_native)
                v == IF be THEN ah_from_be(N, u, bc_native)
                     ELSE IF N = 8 THEN ah_from_le(4, u, bc_native)
                     ELSE ah_from_le(N, u, bc_native)
            IN /\ bc' = [bc EXCEPT !.r = bc.r + N]
               /\ bc_last' = BufcLast("read_u", N, be, v, TRUE, bc.r)

\* the values the user writes: small, with a high byte set, and all ones
UVals(N) == {1, (ByteWrap ^ (N - 1)) + 2, (ByteWrap ^ N) - 1}

BufcNext ==
    \/ \E kind \in {"readable", "writable"}, sz \in 0..MaxBuf,
          native \in {"little", "big"} : ah_bufc_from(kind, sz, native)
    \/ \E n \in 0..MaxN : ah_bufc_skip(n)
    \/ \E n \in 0..MaxN, dstNull, advance \in BOOLEAN :
         ah_bufc_read(n, dstNull, advance)
    \/ \E n \in 0..MaxN, srcNull \in BOOLEAN : ah_bufc_write(n, srcNull)
    \/ \E n \in 0..MaxN : ah_bufc_copy(n)
    \/ \E N \in {2, 4, 8}, be \in BOOLEAN :
         \E u \in UVals(N) : ah_bufc_write_uN(N, be, u)
    \/ \E N \in {2, 4, 8}, be \in BOOLEAN : ah_bufc_read_uN(N, be)

\* ------------------------------------------- iocp/loop.c: the task queue
Tasks == 1..MaxTasks
Times == 0..MaxTime
NoBaseline == -1

\* ah_time_is_before(a, b): a occurs before b
ah_time_is_before(a, b) == a < b

TaskEntry(baseline, task) == [baseline |-> baseline, task |-> task]

\* a slot of the array that nothing has been stored in yet
Indeterminate == TaskEntry(NoBaseline, NULL)

\* the slot was never stored in or lies past the end of the array
NoEntryAt(q, i) == ~(i < q.capacity) \/ q.entries[i] = Indeterminate

\* what a read of a slot gives: its content, or any entry at all when the
\* slot holds none
EntryRead(q, i) ==
    IF NoEntryAt(q, i)
    THEN {TaskEntry(b, t) : b \in Times, t \in Tasks \cup {NULL}}
    ELSE {q.entries[i]}

\* s_task_queue_init, as ah_i_loop_init calls it, and the tasks after
\* ah_task_init
TaskInit ==
    /\ tq = [capacity |-> InitialCapacity, length |-> 0,
             entries |-> [i \in 0..(MaxTasks - 1) |-> Indeterminate]]
    /\ t_state = [t \in Tasks |-> AH_I_TASK_STATE_INITIAL]
    /\ t_now = 0
    /\ tq_live = [t \in Tasks |-> NoBaseline]
    /\ tq_last = [op |-> "none", task |-> NULL, baseline |-> NoBaseline,
                  ret |-> AH_ENONE, ran |-> <<>>]
    /\ tq_ub = FALSE
    /\ tq_ops = 0

TaskRest == <<lvars, wvars, cvars, rvars, uvars, nvars, svars, bvars, fvars>>

TaskLast(op, task, baseline, ret, ran) ==
    [op |-> op, task |-> task, baseline |-> baseline, ret |-> ret,
     ran |-> ran]

\* s_task_queue_heapify_down_from: the entries after the loop that starts
\* at index
RECURSIVE s_task_queue_heapify_down_from(_, _, _)
s_task_queue_heapify_down_from(entries, length, index) ==
    IF ~(index < length) THEN entries
    ELSE LET baseline == entries[index].baseline
             left == (index * 2) + 1
             right == left + 1
             m1 == IF left < length
                      /\ ah_time_is_before(entries[left].baseline, baseline)
                   THEN left ELSE index
             index_min_child ==
                   IF right < length
                      /\ ah_time_is_before(entries[right].baseline, baseline)
                   THEN right ELSE m1
         IN  IF index_min_child = index THEN entries
             ELSE s_task_queue_heapify_down_from(
                      [entries EXCEPT ![index_min_child] = entries[index],
                                      ![index] = entries[index_min_child]],
                      length, index_min_child)

\* the loop of ah_i_loop_schedule_task that moves parents down: the entries
\* and the index the new entry is stored at
RECURSIVE SiftUp(_, _, _)
SiftUp(entries, index, baseline) ==
    IF index = 0 THEN <<entries, index>>
    ELSE LET index_parent == (index - 1) \div 2
         IN  IF ~ah_time_is_before(baseline, entries[index_parent].baseline)
             THEN <<entries, index>>
             ELSE SiftUp([entries EXCEPT ![index] = entries[index_parent]],
                         index_parent, baseline)

\* ah_i_loop_schedule_task: the queue after it and what it returns; grown is
\* the capacity ah_realloc_array_larger gives, NULL when it fails
ah_i_loop_schedule_task(q, baseline, task, grown) ==
    IF q.length = q.capacity /\ grown = NULL
    THEN [q |-> q, err |-> AH_ENOMEM]
    ELSE LET up == SiftUp(q.entries, q.length, baseline)
         IN  [q |-> [capacity |-> IF q.length = q.capacity THEN grown
                                  ELSE q.capacity,
                     length |-> q.length + 1,
                     entries |-> [up[1] EXCEPT
                                    ![up[2]] = TaskEntry(baseline, task)]],
              err |-> AH_ENONE]

\* the index of the first entry of the task, or -1
FirstIndexOf(q, task) ==
    IF \E i \in 0..(q.length - 1) : q.entries[i].task = task
    THEN CHOOSE i \in 0..(q.length - 1) :
             /\ q.entries[i].task = task
             /\ \A j \in 0..(i - 1) : q.entries[j].task # task
    ELSE -1

\* ah_i_loop_try_cancel_task: the queue after it and what it returns; moved
\* is what the read of entries[length] gave
ah_i_loop_try_cancel_task(q, task, moved) ==
    LET index == FirstIndexOf(q, task)
    IN  IF index = -1 THEN [q |-> q, ret |-> FALSE]
        ELSE [q |-> [q EXCEPT
                       !.length = q.length - 1,
                       !.entries = s_task_queue_heapify_down_from(
                                       [q.entries EXCEPT ![index] = moved],
                                       q.length - 1, index)],
              ret |-> TRUE]

\* s_task_queue_dequeue_if_at_or_after: the queue after it and the task it
\* returns
s_task_queue_dequeue_if_at_or_after(q, baseline) ==
    IF q.length = 0 \/ ah_time_is_before(q.entries[0].baseline, baseline)
    THEN [q |-> q, task |-> NULL]
    ELSE [q |-> [q EXCEPT
                   !.length = q.length - 1,
                   !.entries = s_task_queue_heapify_down_from(
                                   [q.entries EXCEPT
                                      ![0] = q.entries[q.length - 1]],
                                   q.length - 1, 0)],
          task |-> q.entries[0].task]

\* the loop at the end of a poll: the queue after it and the tasks it ran,
\* in order
RECURSIVE RunDue(_, _, _)
RunDue(q, now, ran) ==
    LET d == s_task_queue_dequeue_if_at_or_after(q, now)
    IN  IF d.task = NULL THEN [q |-> d.q, ran |-> ran]
        ELSE RunDue(d.q, now, Append(ran, d.task))

Ran(ran) == {ran[i] : i \in 1..Len(ran)}

\* the user makes one more call: so far every entry read was one
TaskLive ==
    /\ ~tq_ub
    /\ tq_ops < MaxTaskOps
    /\ tq_ops' = tq_ops + 1
    /\ UNCHANGED TaskRest

\* ah_task_schedule_at(task, baseline)
ah_task_schedule_at(task, baseline, grown) ==
    /\ TaskLive
    /\ UNCHANGED <<t_now, tq_ub>>
    /\ IF t_state[task] = AH_I_TASK_STATE_SCHEDULED
       THEN /\ grown = NULL
            /\ tq_last' = TaskLast("schedule", task, baseline, AH_ESTATE, <<>>)
            /\ UNCHANGED <<tq, t_state, tq_live>>
       ELSE LET s == ah_i_loop_schedule_task(tq, baseline, task, grown)
            IN  /\ grown = NULL
                   \/ (tq.length = tq.capacity /\ grown > tq.capacity)
                /\ tq' = s.q
                /\ tq_last' = TaskLast("schedule", task, baseline, s.err, <<>>)
                /\ IF s.err = AH_ENONE
                   THEN /\ t_state' = [t_state EXCEPT
                                         ![task] = AH_I_TASK_STATE_SCHEDULED]
                        /\ tq_live' = [tq_live EXCEPT ![task] = baseline]
                   ELSE UNCHANGED <<t_state, tq_live>>

\* ah_task_cancel(task): a scheduled task is taken from the queue and its
\* callback is called with AH_ECANCELED
ah_task_cancel(task) ==
    /\ TaskLive
    /\ UNCHANGED t_now
    /\ IF t_state[task] # AH_I_TASK_STATE_SCHEDULED
       THEN /\ tq_last' = TaskLast("cancel", task, NoBaseline, AH_ENONE, <<>>)
            /\ UNCHANGED <<tq, t_state, tq_live, tq_ub>>
       ELSE \E moved \in EntryRead(tq, tq.length) :
              LET c == ah_i_loop_try_cancel_task(tq, task, moved)
              IN  /\ tq' = c.q
                  /\ tq_ub' = (c.ret /\ NoEntryAt(tq, tq.length))
                  /\ t_state' = [t_state EXCEPT
                                   ![task] = AH_I_TASK_STATE_CANCELED]
                  /\ tq_live' = [tq_live EXCEPT ![task] = NoBaseline]
                  /\ tq_last' = TaskLast("cancel", task, NoBaseline,
                                         AH_ECANCELED, <<>>)

\* a poll of the loop at the time now: every task the queue gives for that
\* time is executed (ah_i_task_execute_scheduled)
loop_poll_tasks(now) ==
    /\ TaskLive
    /\ now >= t_now
    /\ t_now' = now
    /\ UNCHANGED tq_ub
    /\ LET d == RunDue(tq, now, <<>>)
       IN  /\ tq' = d.q
           /\ t_state' = [t \in Tasks |->
                            IF t \in Ran(d.ran) THEN AH_I_TASK_STATE_EXECUTED
                            ELSE t_state[t]]
           /\ tq_live' = [t \in Tasks |->
                            IF t \in Ran(d.ran) THEN NoBaseline
                            ELSE tq_live[t]]
           /\ tq_last' = TaskLast("poll", NULL, NoBaseline, AH_ENONE, d.ran)

TaskNext ==
    \/ \E task \in Tasks, baseline \in Times, grown \in 0..MaxTasks :
         ah_task_schedule_at(task, baseline, grown)
    \/ \E task \in Tasks : ah_task_cancel(task)
    \/ \E now \in Times : loop_poll_tasks(now)

\* ------------------------------------------------------- specifications
\* the loop after ah_loop_init and the connection once it is connected
Init == LoopInit /\ WriteInit /\ ConnInit /\ UringInit /\ ListenerInit
        /\ SlabInit /\ BumpInit /\ BufcInit /\ TaskInit

SpecLoop == Init /\ [][LoopNext]_vars

SpecWrite == Init /\ [][WriteNext]_vars

SpecConn == Init /\ [][ConnNext]_vars

SpecUring == Init /\ [][UringNext]_vars

\* the io_uring connection while its peer sends nothing: every operation
\* but the completion of a receive
UringWriteNext ==
    \/ ah_i_tcp_conn_connect
    \/ \E ok \in BOOLEAN : uring_s_on_conn_connect(ok)
    \/ ah_i_tcp_conn_read_start
    \/ ah_i_tcp_conn_read_stop
    \/ \E o \in Outs : ah_i_tcp_conn_write(o)
    \/ \E o \in Outs, res \in -1..MaxLen : uring_s_on_conn_write(o, res)
    \/ uring_callback_return
    \/ ah_i_tcp_conn_close
    \/ on_close_return
    \/ s_on_conn_close

SpecUringWrite == Init /\ [][UringWriteNext]_vars

SpecListener == Init /\ [][ListenerNext]_vars

SpecSlab == Init /\ [][SlabNext]_vars

SpecBump == Init /\ [][BumpNext]_vars

SpecBufc == Init /\ [][BufcNext]_vars

SpecTask == Init /\ [][TaskNext]_vars

\* ------------------------------------------------ properties of the loop
\* an API call was made in this step
Called(op) == ncalls' # ncalls /\ last'.op = op

\* the loop, its slab, its kernel queue and the call stack are as before
LoopUntouched ==
    UNCHANGED <<l_state, l_rel, l_sterm, slab, pend, stk, ncancel>>

\* C1: is_term and is_running never hold together, and a loop that has
\* reached Terminated stays Terminated.
C1_TerminatedIsSink ==
    /\ [](~(ah_loop_is_term /\ ah_loop_is_running))
    /\ [][l_state = AHI_LOOP_STATE_TERMINATED
            => l_state' = AHI_LOOP_STATE_TERMINATED]_vars

\* C2: when run_until returns, the loop is Terminated if a term() was
\* accepted during the run and Stopped if none was.
C2_RunUntilOutcome ==
    runret.n > 0 =>
        IF runret.term THEN runret.st = AHI_LOOP_STATE_TERMINATED
        ELSE runret.st = AHI_LOOP_STATE_STOPPED

\* C3: once the loop is Terminated every completion record that was
\* outstanding has had exactly one callback as cancelled, and no record ever
\* has more than one.
C3_CancelledExactlyOnce ==
    /\ \A p \in Slots : ncancel[p] <= 1
    /\ l_state = AHI_LOOP_STATE_TERMINATED =>
           \A p \in Slots : slab.nf[p] = AHI_IS_ALLOCATED => ncancel[p] = 1

C5_InlineTermination ==
    (/\ last.op = "term"
     /\ last.pre \in {AHI_LOOP_STATE_INITIAL, AHI_LOOP_STATE_STOPPED}
     /\ \A j \in 1..Len(stk) : stk[j].k # "term")
    => (/\ l_state = AHI_LOOP_STATE_TERMINATED
        /\ l_sterm >= 1
        /\ l_rel >= 1)

\* C6: run_until is accepted exactly in Initial and Stopped and then sets
\* Running, stop is accepted exactly in Running and then sets Stopping; a
\* refused call returns State, leaves the loop as it was and runs no callback.
C6_RunAndStopGuards ==
    [][/\ Called("run_until") =>
            IF l_state \in {AHI_LOOP_STATE_INITIAL, AHI_LOOP_STATE_STOPPED}
            THEN l_state' = AHI_LOOP_STATE_RUNNING /\ last'.ret # AH_ESTATE
            ELSE last'.ret = AH_ESTATE /\ LoopUntouched
       /\ Called("stop") =>
            IF l_state = AHI_LOOP_STATE_RUNNING
            THEN l_state' = AHI_LOOP_STATE_STOPPING /\ last'.ret = AH_ENONE
            ELSE last'.ret = AH_ESTATE /\ LoopUntouched]_vars

\* a run_until was refused inside a callback of a loop that was stopping
C6_Witness ==
    /\ last.op = "run_until"
    /\ last.pre = AHI_LOOP_STATE_STOPPING
    /\ last.ret = AH_ESTATE
    /\ l_state = AHI_LOOP_STATE_STOPPING

\* C7: no completion record is freed twice or touched after its release,
\* and once the loop is Terminated and idle no record is left allocated in a
\* bank that was not released.
C7_RecordReturnedOnce ==
    /\ ~ub
    /\ (l_state = AHI_LOOP_STATE_TERMINATED /\ stk = <<>>) =>
           \A p \in Slots :
               slab.nf[p] = AHI_IS_ALLOCATED => Released(slab, p)

\* ------------------------------------------ properties of the write path
\* the callbacks made for m while its write() stood accepted
CbCount(m) == Cardinality({i \in 1..Len(cb_log) : cb_log[i] = m})

AccIdx(m) == CHOOSE i \in 1..Len(acc) : acc[i] = m

\* no write event is armed and the handler is not running
WriteQuiescent ==
    /\ w_pc = "idle"
    /\ ~w_reg
    /\ c_state >= AH_I_TCP_CONN_STATE_CONNECTED

\* C8: the on_write callbacks of accepted writes come in the order in which
\* the writes were accepted: no callback of an earlier accepted write
\* follows a callback of a later one.
C8_WriteCallbacksFifo ==
    \A i, j \in 1..Len(cb_log) :
        (i < j /\ cb_log[i] # NULL /\ cb_log[j] # NULL)
            => AccIdx(cb_log[i]) <= AccIdx(cb_log[j])

\* C9: a write completion that reports an error dequeues the head and
\* makes one on_write callback for it with that error.
C9_ErrorDequeuesHead ==
    [][(/\ w_pc = "idle"
        /\ w_pc' = "cb"
        /\ w_rep'.err \in {AH_ECONNRESET, AH_EEOF})
          => (/\ wq_head' = om_next[wq_head]
              /\ w_rep'.m = wq_head
              /\ Len(cb_log') = Len(cb_log) + 1)]_vars

\* C10: an accepted write never has more than one on_write callback, and
\* when the open connection has no write event armed and no handler running
\* every accepted write has had its callback.
C10_AcceptedWriteOneCallback ==
    /\ \A m \in Omsgs : InAcc(m) => CbCount(m) <= 1
    /\ WriteQuiescent => \A m \in Omsgs : InAcc(m) => CbCount(m) = 1

\* ------------------------------------- properties of the TCP connection
\* C11: at any time at most one write of the connection is in the kernel:
\* a write accepted while another is in flight waits in the write queue.
C11_OneWriteInFlight == Cardinality(u_wr) <= 1

\* writes are permitted: Connected or Reading with the wr bit clear
WritePermitted ==
    /\ c_state \in {AH_I_TCP_CONN_STATE_CONNECTED, AH_I_TCP_CONN_STATE_READING}
    /\ ~HasFlag(c_shut, AH_TCP_SHUTDOWN_WR)

C13_CloseOnce ==
    /\ n_onclose + u_cl <= 1
    /\ n_onclose + u_cl = 1 => c_state = AH_I_TCP_CONN_STATE_CLOSED
    /\ (c_inclose /\ c_last.op = "close") => c_last.ret = AH_ESTATE

\* C14: when on_close has fired, every write that was accepted before the
\* close has had its on_write, none is still in the kernel and none was
\* completed without a callback; and no callback other than on_close is made
\* after on_close.
C14_CallbacksBeforeOnClose ==
    /\ n_onclose > 0 => \A o \in Outs : u_out[o] \notin {"sent", "dropped"}
    /\ [][(u_pc = "idle" /\ u_pc' \in {"connect", "read", "read_err", "write",
                                       "write_zero", "write_short"})
            => n_onclose = 0]_vars

\* C15: a connection call that returns an error leaves the state, the
\* shutdown flags and the writes that are queued or submitted as they were.
C15_ErrorLeavesConnection ==
    [][(c_last' # c_last /\ c_last'.ret # AH_ENONE)
         => UNCHANGED <<c_state, c_shut, u_wr, wq_head, wq_end, om_next>>]_vars

\* on_connect is made in this step
OnConnectMade == k_pc \notin {"cb", "cb_sync"} /\ k_pc' \in {"cb", "cb_sync"}

\* C16: connect is accepted only from Open and then sets Connecting, from
\* any other state it returns State and changes nothing; the completion
\* makes on_connect and leaves Connected after a success and Open after a
\* failure; Connecting is left only by the completion or by close, and
\* Reading is entered only by read_start on a Connected connection.
C16_ConnectTransitions ==
    [][/\ (c_state # AH_I_TCP_CONN_STATE_CONNECTING
             /\ c_state' = AH_I_TCP_CONN_STATE_CONNECTING)
            => c_state = AH_I_TCP_CONN_STATE_OPEN
       /\ (c_last' # c_last /\ c_last'.op = "connect" /\ k_pc' = k_pc)
            => IF c_state = AH_I_TCP_CONN_STATE_OPEN
               THEN \/ /\ c_last'.ret = AH_ENONE
                       /\ c_state' = AH_I_TCP_CONN_STATE_CONNECTING
                    \/ /\ c_last'.ret = AH_ENOMEM
                       /\ UNCHANGED c_state
               ELSE c_last'.ret = AH_ESTATE /\ UNCHANGED c_state
       /\ OnConnectMade
            => c_state' = (IF k_rep' = AH_ENONE
                           THEN AH_I_TCP_CONN_STATE_CONNECTED
                           ELSE AH_I_TCP_CONN_STATE_OPEN)
       /\ (c_state = AH_I_TCP_CONN_STATE_CONNECTING
             /\ c_state' # AH_I_TCP_CONN_STATE_CONNECTING)
            => (OnConnectMade \/ c_state' = AH_I_TCP_CONN_STATE_CLOSED)
       /\ (c_state # AH_I_TCP_CONN_STATE_READING
             /\ c_state' = AH_I_TCP_CONN_STATE_READING)
            => (/\ c_state = AH_I_TCP_CONN_STATE_CONNECTED
                /\ c_last' = [op |-> "read_start", ret |-> AH_ENONE])]_vars

\* on_connect is being made for a connect that failed, the connection is
\* Open again
C16_Witness ==
    /\ k_pc = "cb"
    /\ k_rep # AH_ENONE
    /\ c_state = AH_I_TCP_CONN_STATE_OPEN
    /\ c_last = [op |-> "connect", ret |-> AH_ENONE]

\* read_stop returned in this step
ReadStopCalled == c_last' # c_last /\ c_last'.op = "read_stop"

\* C17 as stated: a read_stop that succeeds on a Reading connection leaves
\* it Connected, and read_stop on a Connected connection succeeds and leaves
\* it Connected.
C17_ReadStopOriginal ==
    [][ReadStopCalled =>
         /\ (c_state = AH_I_TCP_CONN_STATE_READING /\ c_last'.ret = AH_ENONE)
              => c_state' = AH_I_TCP_CONN_STATE_CONNECTED
         /\ c_state = AH_I_TCP_CONN_STATE_CONNECTED
              => (/\ c_last'.ret = AH_ENONE
                  /\ c_state' = AH_I_TCP_CONN_STATE_CONNECTED)]_vars

\* C17 amended: read_stop on a Reading connection leaves it Connected when
\* it returns without error and Reading when it returns an error; read_stop
\* on a Connected connection returns State and changes nothing.
C17_ReadStop ==
    [][ReadStopCalled =>
         /\ c_state = AH_I_TCP_CONN_STATE_READING
              => IF c_last'.ret = AH_ENONE
                 THEN c_state' = AH_I_TCP_CONN_STATE_CONNECTED
                 ELSE UNCHANGED <<c_state, c_shut, r_reg>>
         /\ c_state = AH_I_TCP_CONN_STATE_CONNECTED
              => (/\ c_last'.ret = AH_ESTATE
                  /\ UNCHANGED <<c_state, c_shut, r_reg>>)]_vars

\* read_stop was refused on a connection that had been Reading before and
\* is Connected
C17_Witness ==
    /\ c_last = [op |-> "read_stop", ret |-> AH_ESTATE]
    /\ c_state = AH_I_TCP_CONN_STATE_CONNECTED
    /\ r_kev.kind # "none"

\* C18: read_start is accepted only on a Connected connection whose rd bit
\* is clear, and a read callback is made only for a connection that is
\* Reading and whose rd bit was clear when the callback was decided on.
C18_ReadsOnlyWhileReading ==
    [][/\ (c_state # AH_I_TCP_CONN_STATE_READING
             /\ c_state' = AH_I_TCP_CONN_STATE_READING)
            => (/\ c_state = AH_I_TCP_CONN_STATE_CONNECTED
                /\ ~HasFlag(c_shut, AH_TCP_SHUTDOWN_RD))
       /\ (r_pc' # r_pc /\ r_pc' # "idle")
            => (/\ c_state = AH_I_TCP_CONN_STATE_READING
                /\ ~HasFlag(c_shut, AH_TCP_SHUTDOWN_RD))]_vars

\* C19: when the read event of a Reading connection with its rd bit clear
\* reports the end of the stream with no data left, the rd bit is set and
\* one on_read is made with Eof.
C19_EofSetsRdAndReports ==
    [][(/\ r_kev' # r_kev
        /\ r_kev'.kind \in {"eof", "eoferr"}
        /\ r_kev'.left = 0
        /\ r_pc = "idle"
        /\ c_state = AH_I_TCP_CONN_STATE_READING
        /\ ~HasFlag(c_shut, AH_TCP_SHUTDOWN_RD))
          => (/\ HasFlag(c_shut', AH_TCP_SHUTDOWN_RD)
              /\ r_pc' = "err"
              /\ r_rep' = [cb |-> "err", err |-> AH_EEOF])]_vars

\* C20: at most one receive of the connection is in the kernel at any time,
\* and the page a receive in the kernel fills has not been freed.
C20_OneReadInFlight ==
    /\ Cardinality(u_rd) <= 1
    /\ \A p \in u_rd : u_pages[p] = "live"

\* ------------------------------------------- properties of partial writes
\* C21: a write completion that transmitted only a part of a descriptor
\* makes no on_write; on_write is made for a descriptor only after all of
\* its bytes were handed off or an error occurred.
C21_NoCallbackForPartialWrite ==
    u_pc # "write_short"

\* C22: a write completion that transmitted no byte of a non-empty request
\* is not reported through on_write as a success.
C22_ZeroBytesNotSuccess ==
    u_pc # "write_zero"

\* ------------------------------------------- properties of the listener
\* C23: the banks of a listener's connection slab are returned to the page
\* allocator only after the listener and every connection accepted from it
\* have been closed, and once; while an accepted connection is not yet
\* closed its slot stays allocated in a bank that has not been returned,
\* also after the listener itself was closed.
C23_BanksOutliveConnections ==
    /\ \A p \in Slots :
         ln_conn[p] # "none" =>
            /\ ~Released(ln_slab, p)
            /\ ln_slab.nf[p] = AHI_IS_ALLOCATED
    /\ \A b \in Banks :
         /\ ln_slab.pf[b] <= 1
         /\ ln_slab.pf[b] > 0 =>
              /\ ln_state = AH_I_TCP_LISTENER_STATE_CLOSED
              /\ ln_cl = 0
              /\ \A p \in Slots : ln_conn[p] = "none"

\* the listener is closed and has dropped its reference, and an accepted
\* connection is still open in its slab
C23_Witness ==
    /\ ln_state = AH_I_TCP_LISTENER_STATE_CLOSED
    /\ ln_cl = 0
    /\ ln_last.op = "on_close"
    /\ ln_slab.ref = 1
    /\ \E p \in Slots : ln_conn[p] = "open" /\ ~Released(ln_slab, p)

\* C24: while a listener is Listening, between the completions of its
\* accepts exactly one accept is in the ring.
C24_OneAcceptOutstanding ==
    (ln_state = AH_I_TCP_LISTENER_STATE_LISTENING /\ ln_pc = "idle")
        => ln_acc = 1

BanksOf(s) == {s.bl[i] : i \in 1..Len(s.bl)}

\* C26: no bank is returned to the page allocator until the reference count
\* has reached zero, whichever way the slab was terminated.
C26_TermOnlyDecrementsOriginal ==
    \A b \in Banks : sl.pf[b] > 0 => sl.ref = 0

\* C26: terminating a slab without a visitor while slots are allocated is
\* only a decrement: no bank is returned until the count reaches zero, and
\* the decrement that brings it to zero, the term or the last free, returns
\* every bank, once.  Terminating with a visitor returns every bank before
\* term returns, whatever the count is.
C26_TermOnlyDecrements ==
    /\ \A b \in Banks :
         /\ sl.pf[b] <= 1
         /\ sl.pf[b] > 0 => (sl.ref = 0 \/ sl_termed = "visitor")
    /\ (sl.ref = 0 /\ sl_walk.st = "idle") =>
           \A b \in BanksOf(sl) : sl.pf[b] = 1
    /\ sl_walk.st = "done" => \A b \in BanksOf(sl) : sl.pf[b] = 1

\* term without a visitor has been called while slots are allocated, and
\* the banks are all still there
C26_Witness ==
    /\ sl_termed = "null"
    /\ sl_last.op = "term"
    /\ sl_held # {}
    /\ sl.ref = Cardinality(sl_held)
    /\ \A b \in Banks : sl.pf[b] = 0

\* C27: term with a visitor calls the visitor exactly once for each slot
\* that is allocated when term is called and never for a free slot, except
\* that a slot which the visitor frees before it was visited is not
\* visited; this is so when term is over, whichever way it ended.
C27_VisitorOncePerAllocated ==
    /\ \A p \in Slots :
         /\ sl_vis[p] <= 1
         /\ sl_vis[p] > 0 => p \in sl_snap
         /\ p \in sl_vfreed => sl_vis[p] = 0
    /\ sl_walk.st \in {"done", "halted"} =>
         \A p \in sl_snap \ sl_vfreed : sl_vis[p] = 1

\* C28: as long as only alloc and free are called, alloc hands out a slot
\* that the user does not hold, so that the held pointers are pairwise
\* distinct; every held pointer refers to an allocated slot of a bank that
\* has not been returned, and the banks a slab has are never moved or
\* dropped when slots are freed or banks are added.
C28_PointersDistinctAndStable ==
    /\ [](sl_termed = "no" =>
            \A p \in sl_held :
               sl.nf[p] = AHI_IS_ALLOCATED /\ ~Released(sl, p))
    /\ [][sl_termed' = "no" =>
            /\ sl.bl = SubSeq(sl'.bl, Len(sl'.bl) - Len(sl.bl) + 1,
                              Len(sl'.bl))
            /\ sl'.ref = sl.ref + 1 =>
                 /\ sl_last'.p \in Slots \ sl_held
                 /\ sl_held' = sl_held \cup {sl_last'.p}
            /\ sl'.ref # sl.ref + 1 => sl_held' \subseteq sl_held]_vars

\* slots of both banks are held after a slot was freed
C28_Witness ==
    /\ sl_termed = "no"
    /\ sl_last.op = "free"
    /\ Len(sl.bl) = 2
    /\ \E p \in sl_held, q \in sl_held : BankOf(p) = 1 /\ BankOf(q) = 2

\* --------------------------------------- properties of the bump allocator
\* a size rounded up to the pointer alignment
RoundUp(sz) == ((sz + PtrAlign - 1) \div PtrAlign) * PtrAlign

\* C29: after init and any sequence of alloc and reset, base <= off <= end
\* and all three lie within the region the caller gave to init, also for a
\* region that does not begin at an aligned address; an alloc whose advance
\* would pass end returns null and leaves off as it was.
C29_WithinSuppliedRegion ==
    /\ [](bm_on =>
            /\ bm.base <= bm.off /\ bm.off <= bm.end
            /\ bm_reg.lo <= bm.base
            /\ bm.end <= bm_reg.lo + bm_reg.sz)
    /\ [][(bm_on /\ bm_last' # bm_last /\ bm_last'.op = "alloc"
             /\ bm.off + RoundUp(bm_last'.sz) > bm.end)
            => (bm_last'.p = NULL /\ bm'.off = bm.off)]_vars

\* C30: the pointers of the successful allocations since init or the last
\* reset are aligned and pairwise distinct, whatever sizes were asked for,
\* and used_size is the sum of those sizes, each rounded up to the pointer
\* alignment.
RECURSIVE SumRounded(_)
SumRounded(log) ==
    IF log = <<>> THEN 0 ELSE RoundUp(Head(log).sz) + SumRounded(Tail(log))

C30_AlignedDistinctOriginal ==
    bm_on =>
       /\ \A i \in 1..Len(bm_log) : bm_log[i].p % PtrAlign = 0
       /\ \A i \in 1..Len(bm_log), j \in 1..Len(bm_log) :
             i # j => bm_log[i].p # bm_log[j].p
       /\ ah_bump_get_used_size(bm) = SumRounded(bm_log)

\* C30: the pointers of the successful allocations since init or the last
\* reset are aligned and lie in the order of the calls; those of two
\* allocations are distinct unless every allocation from the earlier one up
\* to the later one asked for no byte; used_size is the sum of the sizes
\* asked for, each rounded up to the pointer alignment.
C30_AlignedDistinct ==
    bm_on =>
       /\ \A i \in 1..Len(bm_log) : bm_log[i].p % PtrAlign = 0
       /\ \A i \in 1..Len(bm_log), j \in 1..Len(bm_log) :
             i < j =>
                /\ bm_log[i].p <= bm_log[j].p
                /\ (bm_log[i].p = bm_log[j].p) =
                      (\A k \in i..(j - 1) : bm_log[k].sz = 0)
                /\ bm_log[j].p - bm_log[i].p >= RoundUp(bm_log[i].sz)
       /\ ah_bump_get_used_size(bm) = SumRounded(bm_log)

\* three allocations from a region that does not begin at an aligned
\* address: two of sizes that are no multiples of the alignment, and between
\* them one of no byte, which got the pointer the third one got again
C30_Witness ==
    /\ bm_on
    /\ bm_reg.lo % PtrAlign # 0
    /\ Len(bm_log) = 3
    /\ bm_log[1].sz % PtrAlign # 0
    /\ bm_log[2].sz = 0
    /\ bm_log[3].sz % PtrAlign # 0
    /\ bm_log[3].p = bm_log[2].p

\* ======================================================================
\* C31: every cursor operation (copy, peek, read, skip, write and the
\* integer reads and writes), applied to a cursor with r <= w <= e, leaves
\* it with r <= w <= e, whether it succeeds or fails, and changes no byte
\* outside [w, e).
C31_CursorInvariantKept ==
    [][(bc_on /\ bc.r <= bc.w /\ bc.w <= bc.e)
        => /\ bc'.r <= bc'.w /\ bc'.w <= bc'.e
           /\ \A x \in DOMAIN bc_mem :
                bc_mem'[x] # bc_mem[x] => (bc.w <= x /\ x < bc.e)]_vars

\* ======================================================================
\* C32: on a cursor with r <= w <= e, an integer write of N bytes returns
\* false and an integer read of N bytes returns 0, the cursor and the
\* bytes staying as they were, whenever fewer than N bytes are writable
\* (readable); otherwise N bytes are transferred, no other byte changes
\* and w (r) advances by exactly N.
C32_IntegerGuards ==
    [][(bc_on /\ bc.r <= bc.w /\ bc.w <= bc.e)
        => LET l == bc_last'
           IN /\ l.op = "write_u"
                   => IF bc.e - bc.w < l.N
                      THEN ~l.ret /\ bc' = bc /\ bc_mem' = bc_mem
                      ELSE /\ l.ret
                           /\ bc' = [bc EXCEPT !.w = bc.w + l.N]
                           /\ \A x \in DOMAIN bc_mem :
                                bc_mem'[x] # bc_mem[x]
                                    => (bc.w <= x /\ x < bc.w + l.N)
              /\ l.op = "read_u"
                   => /\ bc_mem' = bc_mem
                      /\ IF bc.w - bc.r < l.N
                         THEN ~l.ret /\ l.u = 0 /\ bc' = bc
                         ELSE l.ret /\ bc' = [bc EXCEPT !.r = bc.r + l.N]]_vars

\* ======================================================================
\* C33: for every width of 16, 32 and 64 bits and every value v of that
\* width, writing v with the big-endian writer and reading it back with
\* the big-endian reader of the same width yields v; likewise with the
\* little-endian writer and reader.
C33_EndianRoundTrip ==
    [][(/\ bc.r <= bc.w /\ bc.w <= bc.e
        /\ bc_last.op = "write_u" /\ bc_last.ret
        /\ bc_last'.op = "read_u" /\ bc_last'.ret
        /\ bc_last'.N = bc_last.N /\ bc_last'.be = bc_last.be
        /\ bc_last'.at = bc_last.at)
        => bc_last'.u = bc_last.u]_vars

\* ======================================================================
\* C34: each bank is given to ah_page_free at most once, and once a bank
\* has been given back no slot of it is handed out by alloc, passed to the
\* visitor or written by free; also when term is called with a visitor
\* while slots are allocated and when the visitor frees slots.
C34_BanksReturnedOnce ==
    /\ [](\A b \in Banks : sl.pf[b] <= 1)
    /\ [][/\ sl_held' \ sl_held # {} => ~Released(sl', sl_last'.p)
          /\ (sl_walk.st = "walk" /\ sl_walk'.st = "cb")
               => ~Released(sl, WalkSlot)
          /\ \A p \in sl_held \ sl_held' : ~Released(sl, p)
          /\ ~sl_ub']_vars

\* ======================================================================
RECURSIVE QueueFrom(_, _)
\* the descriptors met when following _next from m, at most n of them
QueueFrom(m, n) ==
    IF m = NULL \/ n = 0 THEN <<>>
    ELSE <<m>> \o QueueFrom(om_next[m], n - 1)

\* the write queue of the connection, from _write_queue_head on; a list
\* longer than the descriptors there are goes in a circle
WriteQueue == QueueFrom(wq_head, MaxWrites + 1)

\* C35: the write queue is always a finite list without a cycle, and its
\* elements are exactly the accepted writes that have not had their
\* on_write yet, in the order of acceptance; a descriptor whose write has
\* completed, or was refused and is handed in again, is not left in it.
C35_QueueIsPendingWrites ==
    WriteQueue = SelectSeq(acc, LAMBDA m : CbCount(m) = 0)

\* ======================================================================
\* C36: each accepted connect has exactly one on_connect, whether connect()
\* ends at once, fails at once or ends later through the loop: an on_connect
\* is made only for a connect that was accepted and has had none yet, which
\* is while the connection is Connecting, a state that on_connect ends.
C36_OneOnConnectPerConnect ==
    [][OnConnectMade => c_state = AH_I_TCP_CONN_STATE_CONNECTING]_vars

\* ======================================================================
\* C37: once close has been called on a listener, no connection is
\* allocated from its connection slab and no on_accept with a new
\* connection is made for it, also when an accept completes afterwards.
C37_NoAcceptAfterClose ==
    [][ln_state = AH_I_TCP_LISTENER_STATE_CLOSED
        => /\ \A p \in Slots :
                ln_conn[p] = "none" => ln_conn'[p] = "none"
           /\ ln_slab'.ref <= ln_slab.ref
           /\ (ln_pc = "idle" /\ ln_pc' = "accept")
                => ln_last'.ret # AH_ENONE]_vars

\* ======================================================================
\* C38: once the listener and every connection accepted from it have been
\* closed (each has had its on_close), every slot of the connection slab
\* is free and every bank has been given back to the page allocator,
\* whether the closes completed through the ring or were made at once.
C38_SlabReleasedAfterCloses ==
    (/\ ln_state = AH_I_TCP_LISTENER_STATE_CLOSED
     /\ ln_cl = 0
     /\ ln_pc = "idle"
     /\ \A p \in Slots : ln_conn[p] \in {"none", "closed"})
        => /\ Allocated(ln_slab) = {}
           /\ ln_slab.ref = 0
           /\ \A i \in 1..Len(ln_slab.bl) : ln_slab.pf[ln_slab.bl[i]] = 1

\* ======================================================================
\* C39: a poll of the loop executes exactly the scheduled tasks whose
\* baseline is not after the time of the loop at that poll: no task runs
\* before its baseline, and every task whose baseline has passed runs.
C39_DueTasksRun ==
    [][(tq_ops' # tq_ops /\ tq_last'.op = "poll")
        => Ran(tq_last'.ran)
             = {t \in Tasks : /\ tq_live[t] # NoBaseline
                              /\ ~ah_time_is_before(t_now', tq_live[t])}]_vars

\* ======================================================================
\* C40: the task queue is a min-heap on baseline (no entry is before its
\* parent, so entry 0 is the earliest) and it holds exactly one entry for
\* each task that was scheduled and has not been dequeued or cancelled,
\* with the baseline it was scheduled at.
LiveEntries ==
    {TaskEntry(tq_live[t], t) : t \in {u \in Tasks : tq_live[u] # NoBaseline}}

C40_TaskQueueIsHeapOfLive ==
    /\ \A i \in 1..(tq.length - 1) :
         ~ah_time_is_before(tq.entries[i].baseline,
                            tq.entries[(i - 1) \div 2].baseline)
    /\ {tq.entries[i] : i \in 0..(tq.length - 1)} = LiveEntries
    /\ tq.length = Cardinality(LiveEntries)

====
